---- MODULE Spec2Model ----
(***************************************************************************)
(* The dvorak remapper.                                                    *)
(*                                                                         *)
(* Three parts are modelled.  The capture-remap-emit engine is the event   *)
(* loop of main (src/unnamed/part_001): the toggle counter, the modifier   *)
(* mask, the pending-key array with its high-water counter and the mapping *)
(* flag, together with the event just read, the events written to the      *)
(* virtual device for it and the lines logged for it; its environment is   *)
(* the physical keyboard: the set of keys currently held, and for each     *)
(* held key the code that was written to the virtual device at its press.  *)
(* Start-up and shutdown are the statements of main around that loop: the  *)
(* files opened and closed, the name and capability bitmaps read, what is  *)
(* registered on the virtual device, the grab and the exit status.  The    *)
(* third part is the event loop of the older src/dvorak.c with its umlaut  *)
(* layer.                                                                  *)
(***************************************************************************)
EXTENDS Integers, Sequences, FiniteSets, TLC

(* ---- event types and codes (linux/input-event-codes.h) ---------------- *)
EV_SYN == 0
EV_KEY == 1
EV_ABS == 3
EV_MSC == 4

KEY_MINUS == 12
KEY_EQUAL == 13
KEY_Q == 16
KEY_W == 17
KEY_E == 18
KEY_R == 19
KEY_T == 20
KEY_Y == 21
KEY_U == 22
KEY_I == 23
KEY_O == 24
KEY_P == 25
KEY_LEFTBRACE == 26
KEY_RIGHTBRACE == 27
KEY_LEFTCTRL == 29
KEY_A == 30
KEY_S == 31
KEY_D == 32
KEY_F == 33
KEY_G == 34
KEY_H == 35
KEY_J == 36
KEY_K == 37
KEY_L == 38
KEY_SEMICOLON == 39
KEY_APOSTROPHE == 40
KEY_Z == 44
KEY_X == 45
KEY_C == 46
KEY_V == 47
KEY_B == 48
KEY_N == 49
KEY_M == 50
KEY_COMMA == 51
KEY_DOT == 52
KEY_SLASH == 53
KEY_LEFTALT == 56
KEY_CAPSLOCK == 58
KEY_RIGHTCTRL == 97
KEY_LEFTMETA == 125

\* a key combination has a maximum amount of 8 characters
MAX_LENGTH == 8

(* ---- bounds of the model ---------------------------------------------- *)
\* at most this many keys are held down at the same time while the toggle
\* feature is on, and one more while it is off
MaxHeld == 2
\* at most this many flips of the mapping flag in one run
MaxFlips == 2
\* device names of up to this many characters
MaxName == 2
\* keyword options of up to this many characters
MaxMatch == 3
\* at most this many calls of pthread_create in one run of the autoclicker
MaxThreads == 2

(* ---- state ------------------------------------------------------------ *)
VARIABLES
    noToggle,               \* option -t
    noCapsLockAsModifier,   \* option -c
    l_alt,                  \* consecutive left-alt presses
    mod_state,              \* bitmask of the modifiers seen held
    array_qwerty_counter,   \* high-water mark of array_qwerty
    disable_mapping,        \* TRUE while the mapping is toggled off
    array_qwerty,           \* pending remapped codes, 0 = empty slot
    ev,                     \* the event read last
    out,                    \* the events written for ev, in order
    log,                    \* the lines printed while handling ev
    held,                   \* keys physically held down
    pressOut,               \* held key -> code written at its press (0: none)
    altRun,                 \* left-alt key presses of the current run: since
                            \* the last event of another key, modulo 3
    runFlips,               \* flips of disable_mapping in the current run
    flips,                  \* flips of disable_mapping so far
    pc,                     \* the statement of main that is executed next
    exit_status,            \* "running" or the value main returned
    fdi,                    \* input device: "none", "open" or "closed"
    fdo,                    \* /dev/uinput: "none", "open" or "closed"
    grab,                   \* EVIOCGRAB: "none", "held", "failed", "released"
    keep_running,           \* cleared by sig_handler
    device,                 \* the physical device: its name and capabilities
    match,                  \* option -m: NULL or <<string>>
    keyboard_name,          \* the name read with EVIOCGNAME
    array_bit_ev,           \* the capability bitmaps read with EVIOCGBIT,
    array_bit_key,          \* each the set of its set bits
    array_bit_rel,
    array_bit_abs,
    array_bit_msc,
    uinput,                 \* the virtual device: what was registered on it
    rd,                     \* the outcome of the last read of the loop
    hasRead,                \* TRUE once an event was read
    failed,                 \* the system call that failed, or "none"
    lAlt,                   \* src/dvorak.c: consecutive left-alt presses
    isDvorak,               \* src/dvorak.c: TRUE while the mapping is off
    isUmlaut,               \* src/dvorak.c: option -u
    alt_gr,                 \* src/dvorak.c: right-alt seen held
    lshift,                 \* src/dvorak.c: left-shift seen held
    rshift,                 \* src/dvorak.c: right-shift seen held
    array_umlaut,           \* src/dvorak.c: pending keys of the umlaut layer
    array_umlaut_counter,   \* src/dvorak.c: high-water mark of array_umlaut
    vralt,                  \* TRUE while the virtual right-alt key is down
    writeFails,             \* TRUE when writes to /dev/uinput may return -1
    wfail,                  \* the events of out whose write returned -1, by
                            \* their positions in out
    vdown,                  \* the codes emitted pressed and not yet released
    thread_id,              \* src/autoclicker.c: the thread created last, 0:
                            \* none
    thread_active,          \* src/autoclicker.c: the flag guarded by lock
    lock,                   \* src/autoclicker.c: the thread that holds lock
    emit_mutex,             \* src/autoclicker.c: the thread that holds
                            \* emit_mutex
    main_at,                \* src/autoclicker.c: the statement main is at
    click_at,               \* src/autoclicker.c: for each click thread, the
                            \* statement it is at
    balance                 \* src/autoclicker.c: for each click thread, the
                            \* BTN_LEFT presses it has written minus the
                            \* releases

vars == <<noToggle, noCapsLockAsModifier, l_alt, mod_state,
          array_qwerty_counter, disable_mapping, array_qwerty,
          ev, out, log, held, pressOut, altRun, runFlips, flips,
          pc, exit_status, fdi, fdo, grab, keep_running, device, match,
          keyboard_name, array_bit_ev, array_bit_key, array_bit_rel,
          array_bit_abs, array_bit_msc, uinput, rd, hasRead, failed,
          lAlt, isDvorak, isUmlaut, alt_gr, lshift, rshift, array_umlaut,
          array_umlaut_counter, vralt, writeFails, wfail, vdown,
          thread_id, thread_active, lock, emit_mutex, main_at, click_at,
          balance>>

\* the variables of the two remappers
remapper == <<noToggle, noCapsLockAsModifier, l_alt, mod_state,
              array_qwerty_counter, disable_mapping, array_qwerty,
              ev, out, log, held, pressOut, altRun, runFlips, flips,
              pc, exit_status, fdi, fdo, grab, keep_running, device, match,
              keyboard_name, array_bit_ev, array_bit_key, array_bit_rel,
              array_bit_abs, array_bit_msc, uinput, rd, hasRead, failed,
              lAlt, isDvorak, isUmlaut, alt_gr, lshift, rshift, array_umlaut,
              array_umlaut_counter, vralt, writeFails, wfail, vdown>>

\* the variables of src/autoclicker.c
clicker == <<thread_id, thread_active, lock, emit_mutex, main_at, click_at,
             balance>>

alternate == <<lAlt, isDvorak, isUmlaut, alt_gr, lshift, rshift,
               array_umlaut, array_umlaut_counter, vralt, clicker>>

engine == <<noToggle, noCapsLockAsModifier, l_alt, mod_state,
            array_qwerty_counter, disable_mapping, array_qwerty, ev, out,
            log, held, pressOut, altRun, runFlips, flips, lAlt, isDvorak,
            isUmlaut, alt_gr, lshift, rshift, array_umlaut,
            array_umlaut_counter, vralt, writeFails, wfail, vdown,
            clicker>>
bitmaps == <<array_bit_ev, array_bit_key, array_bit_rel, array_bit_abs,
             array_bit_msc>>
setup == <<device, match, keyboard_name, array_bit_ev, array_bit_key,
           array_bit_rel, array_bit_abs, array_bit_msc, uinput>>

(* ---- pure functions ---------------------------------------------------- *)
modifier_bit(key) ==
    CASE key = KEY_LEFTCTRL  -> 1
      [] key = KEY_RIGHTCTRL -> 2
      [] key = KEY_LEFTALT   -> 4
      [] key = KEY_LEFTMETA  -> 8
      [] key = KEY_CAPSLOCK  -> 16
      [] OTHER               -> 0

\* a table in which KEY_X keeps its own code, the code KEY_Q is mapped onto
qwerty2dvorak_keepingX(key) ==
    CASE key = KEY_Q -> KEY_X
      [] key = KEY_X -> KEY_X
      [] OTHER       -> key

qwerty2dvorak(key) ==
    CASE key = KEY_MINUS      -> KEY_APOSTROPHE
      [] key = KEY_EQUAL      -> KEY_RIGHTBRACE
      [] key = KEY_Q          -> KEY_X
      [] key = KEY_W          -> KEY_COMMA
      [] key = KEY_E          -> KEY_D
      [] key = KEY_R          -> KEY_O
      [] key = KEY_T          -> KEY_K
      [] key = KEY_Y          -> KEY_T
      [] key = KEY_U          -> KEY_F
      [] key = KEY_I          -> KEY_G
      [] key = KEY_O          -> KEY_S
      [] key = KEY_P          -> KEY_R
      [] key = KEY_LEFTBRACE  -> KEY_MINUS
      [] key = KEY_RIGHTBRACE -> KEY_EQUAL
      [] key = KEY_A          -> KEY_A
      [] key = KEY_S          -> KEY_SEMICOLON
      [] key = KEY_D          -> KEY_H
      [] key = KEY_F          -> KEY_Y
      [] key = KEY_G          -> KEY_U
      [] key = KEY_H          -> KEY_J
      [] key = KEY_J          -> KEY_C
      [] key = KEY_K          -> KEY_V
      [] key = KEY_L          -> KEY_P
      [] key = KEY_SEMICOLON  -> KEY_Z
      [] key = KEY_APOSTROPHE -> KEY_Q
      [] key = KEY_Z          -> KEY_SLASH
      [] key = KEY_X          -> KEY_B
      [] key = KEY_C          -> KEY_I
      [] key = KEY_V          -> KEY_DOT
      [] key = KEY_B          -> KEY_N
      [] key = KEY_N          -> KEY_L
      [] key = KEY_M          -> KEY_M
      [] key = KEY_COMMA      -> KEY_W
      [] key = KEY_DOT        -> KEY_E
      [] key = KEY_SLASH      -> KEY_LEFTBRACE
      [] OTHER                -> key

\* m | b and m & ~b for a mask m and a single bit b
BitOr(m, b) == IF (m \div b) % 2 = 1 THEN m ELSE m + b
BitAndNot(m, b) == IF (m \div b) % 2 = 1 THEN m - b ELSE m
BitSet(m, b) == (m \div b) % 2 = 1

Event(t, c, v) == [type |-> t, code |-> c, value |-> v]

\* emit: one event written to the virtual device
emit(type, code, value) == <<Event(type, code, value)>>

\* the values write can return for the events o, one after the other: the
\* sets of positions at which it returns -1
Failures(o) == IF writeFails THEN SUBSET DOMAIN o ELSE {{}}

\* the events of o that reached the virtual device when the writes at the
\* positions w returned -1
RECURSIVE Delivered(_, _)
Delivered(o, w) ==
    IF o = <<>>
    THEN <<>>
    ELSE Delivered(SubSeq(o, 1, Len(o) - 1), w)
             \o (IF Len(o) \in w THEN <<>> ELSE <<o[Len(o)]>>)

(* ---- the toggle layer --------------------------------------------------- *)
\* the toggle key recognised without looking at option -t
ToggleKey_ignoringOption(e) == e.code = KEY_LEFTALT

\* if (!noToggle && ev.code == KEY_LEFTALT)
ToggleKey(e) == ~noToggle /\ e.code = KEY_LEFTALT

\* ev.value == 1 && ++l_alt >= 3
ToggleFlips(e) == ToggleKey(e) /\ e.value = 1 /\ l_alt + 1 >= 3

ToggleCounter(e) ==
    IF ToggleKey(e)
    THEN IF e.value = 1
         THEN IF l_alt + 1 >= 3 THEN 0 ELSE l_alt + 1
         ELSE l_alt
    ELSE IF e.type = EV_KEY THEN 0 ELSE l_alt

ToggleFlag(e) ==
    IF ToggleFlips(e) THEN ~disable_mapping ELSE disable_mapping

(* ---- the primary remap layer ------------------------------------------- *)
\* the remap layer entered without looking at the mapping flag
MappingActive_ignoringFlag(dis, e) == e.type = EV_KEY

\* if (!disable_mapping && ev.type == EV_KEY)
MappingActive(dis, e) == ~dis /\ e.type = EV_KEY

\* the modifier mask after the event when option -c is not looked at
ModState_ignoringOption(e, ms) ==
    LET mod_current == modifier_bit(e.code)
    IN IF mod_current > 0
       THEN IF e.value # 0 THEN BitOr(ms, mod_current)
                           ELSE BitAndNot(ms, mod_current)
       ELSE ms

\* the modifier mask after the event
ModState(e, ms) ==
    LET bit == modifier_bit(e.code)
        mod_current ==
            IF noCapsLockAsModifier /\ bit = modifier_bit(KEY_CAPSLOCK)
            THEN 0 ELSE bit
    IN IF mod_current > 0
       THEN IF e.value # 0 THEN BitOr(ms, mod_current)
                           ELSE BitAndNot(ms, mod_current)
       ELSE ms

\* the modifier test taken also with no modifier held
ModifierHeld_always(ms) == ms >= 0

\* if (mod_state > 0)
ModifierHeld(ms) == ms > 0

\* for (i = 0; i < array_qwerty_counter; i++) if (array_qwerty[i] == code)
IsInArray(arr, cnt, code) == \E i \in 0..(cnt - 1) : arr[i] = code

\* index of the first slot below the counter that holds the code
FirstIndex(arr, cnt, code) ==
    CHOOSE i \in 0..(cnt - 1) :
        /\ arr[i] = code
        /\ \A j \in 0..(i - 1) : arr[j] # code

\* last_nonzero + 1 over the slots below the counter
LastNonzeroPlus1(arr, cnt) ==
    IF \E i \in 0..(cnt - 1) : arr[i] # 0
    THEN 1 + CHOOSE i \in 0..(cnt - 1) :
                 /\ arr[i] # 0
                 /\ \A j \in (i + 1)..(cnt - 1) : arr[j] = 0
    ELSE 0

Result(ms, arr, cnt, o, w) ==
    [ms |-> ms, arr |-> arr, cnt |-> cnt, out |-> o, warn |-> w]

\* press of a key with an alternate mapping that appends without the test
\* of the counter against MAX_LENGTH
PressKey_unguarded(e, ms, arr, cnt, qwerty_code) ==
    IF ModifierHeld(ms)
    THEN Result(ms, [arr EXCEPT ![cnt] = qwerty_code], cnt + 1,
                emit(e.type, qwerty_code, e.value), FALSE)
    ELSE Result(ms, arr, cnt, emit(e.type, e.code, e.value), FALSE)

\* press of a key with an alternate mapping
PressKey(e, ms, arr, cnt, qwerty_code) ==
    IF ModifierHeld(ms)
    THEN IF cnt = MAX_LENGTH
         THEN Result(ms, arr, cnt, <<>>, TRUE)
         ELSE Result(ms, [arr EXCEPT ![cnt] = qwerty_code], cnt + 1,
                     emit(e.type, qwerty_code, e.value), FALSE)
    ELSE Result(ms, arr, cnt, emit(e.type, e.code, e.value), FALSE)

\* repeat of a key with an alternate mapping, decided anew from the
\* modifier mask instead of the pending array
RepeatKey_rederived(e, ms, arr, cnt, qwerty_code) ==
    IF ms > 0
    THEN Result(ms, arr, cnt, emit(e.type, qwerty_code, e.value), FALSE)
    ELSE Result(ms, arr, cnt, emit(e.type, e.code, e.value), FALSE)

\* repeat of a key with an alternate mapping
RepeatKey(e, ms, arr, cnt, qwerty_code) ==
    IF IsInArray(arr, cnt, qwerty_code)
    THEN Result(ms, arr, cnt, emit(e.type, qwerty_code, e.value), FALSE)
    ELSE Result(ms, arr, cnt, emit(e.type, e.code, e.value), FALSE)

\* release of a key with an alternate mapping
ReleaseKey(e, ms, arr, cnt, qwerty_code) ==
    IF IsInArray(arr, cnt, qwerty_code)
    THEN LET cleared ==
                 [arr EXCEPT ![FirstIndex(arr, cnt, qwerty_code)] = 0]
         IN Result(ms, cleared, LastNonzeroPlus1(cleared, cnt),
                   emit(e.type, qwerty_code, e.value), FALSE)
    ELSE Result(ms, arr, cnt, emit(e.type, e.code, e.value), FALSE)

\* the body of if (!disable_mapping && ev.type == EV_KEY)
Remap(e, ms0, arr, cnt) ==
    LET ms == ModState(e, ms0)
        qwerty_code == qwerty2dvorak(e.code)
    IN IF e.code # qwerty_code
       THEN CASE e.value = 1 -> PressKey(e, ms, arr, cnt, qwerty_code)
              [] e.value = 2 -> RepeatKey(e, ms, arr, cnt, qwerty_code)
              [] e.value = 0 -> ReleaseKey(e, ms, arr, cnt, qwerty_code)
              [] OTHER -> Result(ms, arr, cnt,
                                 emit(e.type, e.code, e.value), FALSE)
       ELSE Result(ms, arr, cnt, emit(e.type, e.code, e.value), FALSE)

\* one iteration of the event loop for the event e
Handle(e) ==
    LET dis == ToggleFlag(e)
        r == IF MappingActive(dis, e)
             THEN Remap(e, mod_state, array_qwerty, array_qwerty_counter)
             ELSE Result(mod_state, array_qwerty, array_qwerty_counter,
                         emit(e.type, e.code, e.value), FALSE)
    IN /\ pc = "read"
       /\ rd' = "event"
       /\ hasRead' = TRUE
       /\ ev' = e
       /\ l_alt' = ToggleCounter(e)
       /\ disable_mapping' = dis
       /\ mod_state' = r.ms
       /\ array_qwerty' = r.arr
       /\ array_qwerty_counter' = r.cnt
       /\ out' = r.out
       /\ wfail' \in Failures(r.out)
       /\ log' = (IF ToggleFlips(e) THEN {"mapping"} ELSE {})
                 \cup (IF r.warn THEN {"warning"} ELSE {})
       /\ flips' = IF ToggleFlips(e) THEN flips + 1 ELSE flips
       /\ altRun' = IF e.type = EV_KEY
                    THEN IF e.code = KEY_LEFTALT
                         THEN IF e.value = 1 THEN (altRun + 1) % 3
                                             ELSE altRun
                         ELSE 0
                    ELSE altRun
       /\ runFlips' = IF e.type = EV_KEY
                         /\ (e.code # KEY_LEFTALT \/ (e.value = 1 /\ altRun = 2))
                      THEN 0
                      ELSE IF ToggleFlips(e) THEN runFlips + 1 ELSE runFlips
       /\ UNCHANGED <<noToggle, noCapsLockAsModifier, setup, exit_status,
                       fdi, fdo, grab, failed, alternate, writeFails>>

(* ---- the physical keyboard ---------------------------------------------- *)
\* the codes down on the virtual device after the events of seq were
\* emitted: a press puts its code down, a release takes it up
RECURSIVE DownAfter(_, _)
DownAfter(down, seq) ==
    IF seq = <<>>
    THEN down
    ELSE DownAfter(
             IF Head(seq).type = EV_KEY /\ Head(seq).value = 1
             THEN down \cup {Head(seq).code}
             ELSE IF Head(seq).type = EV_KEY /\ Head(seq).value = 0
                  THEN down \ {Head(seq).code}
                  ELSE down,
             Tail(seq))

Modifiers == {KEY_LEFTCTRL, KEY_RIGHTCTRL, KEY_LEFTALT, KEY_LEFTMETA,
              KEY_CAPSLOCK}
\* the keys of the modelled keyboard: three modifiers (caps-lock is an
\* ordinary key under option -c) and two keys with an alternate mapping,
\* the first of which is mapped onto the second
Keys == {KEY_LEFTCTRL, KEY_LEFTALT, KEY_CAPSLOCK, KEY_Q, KEY_X}

\* events that are not key events: a sync report and a scan code, which
\* every keyboard sends, and an event of the absolute axis whose code is 56
\* like KEY_LEFTALT (ABS_MT_BLOB_ID), which a device with such an axis sends
PlainEvents == {Event(EV_SYN, 0, 0), Event(EV_MSC, 4, 3)}
AxisEvents == {Event(EV_ABS, KEY_LEFTALT, 1)}
NonKeyEvents == PlainEvents \cup AxisEvents

Budget(e) == ToggleFlips(e) => flips < MaxFlips

HeldLimit == IF noToggle THEN MaxHeld + 1 ELSE MaxHeld

Press(k) ==
    /\ k \notin held
    /\ Cardinality(held) < HeldLimit
    /\ Budget(Event(EV_KEY, k, 1))
    /\ Handle(Event(EV_KEY, k, 1))
    /\ held' = held \cup {k}
    /\ pressOut' = [pressOut EXCEPT
                       ![k] = IF out' = <<>> THEN 0 ELSE out'[1].code]
    /\ vdown' = DownAfter(vdown, out')
    /\ UNCHANGED <<pc, keep_running>>

Repeat(k) ==
    /\ k \in held
    /\ Handle(Event(EV_KEY, k, 2))
    /\ vdown' = DownAfter(vdown, out')
    /\ UNCHANGED <<held, pressOut>>
    /\ UNCHANGED <<pc, keep_running>>

Release(k) ==
    /\ k \in held
    /\ Handle(Event(EV_KEY, k, 0))
    /\ held' = held \ {k}
    /\ pressOut' = [pressOut EXCEPT ![k] = 0]
    /\ vdown' = DownAfter(vdown, out')
    /\ UNCHANGED <<pc, keep_running>>

NonKey(e) ==
    /\ Handle(e)
    /\ vdown' = DownAfter(vdown, out')
    /\ UNCHANGED <<held, pressOut>>
    /\ UNCHANGED <<pc, keep_running>>

Axis(e) ==
    /\ Budget(e)
    /\ Handle(e)
    /\ vdown' = DownAfter(vdown, out')
    /\ UNCHANGED <<held, pressOut>>
    /\ UNCHANGED <<pc, keep_running>>

(* ======================================================================== *)
(* The event loop of src/dvorak.c, with the umlaut layer of option -u       *)
(* ======================================================================== *)
SYN_REPORT == 0
KEY_6 == 7
KEY_GRAVE == 41
KEY_LEFTSHIFT == 42
KEY_RIGHTSHIFT == 54
KEY_RIGHTALT == 100

\* a key combination has a maximum amount of 16 characters in src/dvorak.c
dvorak_MAX_LENGTH == 16

umlaut2dvorak(key) ==
    CASE key = KEY_A -> KEY_X
      [] key = KEY_X -> KEY_A
      [] key = KEY_S -> KEY_R
      [] key = KEY_R -> KEY_S
      [] key = KEY_F -> KEY_T
      [] key = KEY_T -> KEY_F
      [] OTHER -> key

\* the toggle of src/dvorak.c: the counter and the flag after the event
dvorak_ToggleFlips(e) ==
    ~noToggle /\ e.code = KEY_LEFTALT /\ e.value = 1 /\ lAlt + 1 >= 3

\* a counter that an event of another key does not reset
dvorak_ToggleCounter_keeping(e) ==
    IF ~noToggle /\ e.code = KEY_LEFTALT
    THEN IF e.value = 1
         THEN IF lAlt + 1 >= 3 THEN 0 ELSE lAlt + 1
         ELSE lAlt
    ELSE lAlt

dvorak_ToggleCounter(e) ==
    IF ~noToggle /\ e.code = KEY_LEFTALT
    THEN IF e.value = 1
         THEN IF lAlt + 1 >= 3 THEN 0 ELSE lAlt + 1
         ELSE lAlt
    ELSE IF e.type = EV_KEY THEN 0 ELSE lAlt

\* the modifier mask after a press or a release
dvorak_ModState(e, ms) ==
    LET bit == modifier_bit(e.code)
        mod_current ==
            IF noCapsLockAsModifier /\ bit = modifier_bit(KEY_CAPSLOCK)
            THEN 0 ELSE bit
    IN IF mod_current > 0
       THEN IF e.value = 1 THEN BitOr(ms, mod_current)
                           ELSE BitAndNot(ms, mod_current)
       ELSE ms

\* emit(fdo, EV_KEY, KEY_RIGHTALT, value); emit(fdo, EV_SYN, SYN_REPORT, 0)
SyntheticRightAlt(value) ==
    emit(EV_KEY, KEY_RIGHTALT, value) \o emit(EV_SYN, SYN_REPORT, 0)

\* the release of KEY_6 in the umlaut layer
Key6Release(e, shift, ag) ==
    (IF shift /\ ~ag THEN SyntheticRightAlt(0) ELSE <<>>)
        \o emit(EV_KEY, e.code, e.value)

\* the branch of KEY_6 (the caret) in the umlaut layer
Key6(e, la, ls, rs, ag) ==
    IF e.value = 1
    THEN (IF (ls \/ rs) /\ ~ag
          THEN SyntheticRightAlt(1)
          ELSE IF (la # 0 \/ rs) /\ ag
               THEN SyntheticRightAlt(0)
               ELSE <<>>)
             \o emit(EV_KEY, e.code, e.value)
    ELSE Key6Release(e, ls \/ rs, ag)

\* the branch of KEY_Q and KEY_GRAVE in the umlaut layer
QuoteKey(e, ag) ==
    IF e.value = 1
    THEN (IF ~ag THEN SyntheticRightAlt(1) ELSE SyntheticRightAlt(0))
             \o emit(EV_KEY, e.code, e.value)
    ELSE (IF ~ag THEN SyntheticRightAlt(0) ELSE <<>>)
             \o emit(EV_KEY, e.code, e.value)

\* the press of a key with a mapping, to being the mapped code: the entry
\* stored is the code read plus one
PendingPress(e, arr, cnt, to) ==
    IF cnt = dvorak_MAX_LENGTH
    THEN [arr |-> arr, cnt |-> cnt, code |-> e.code, warn |-> TRUE]
    ELSE [arr |-> [arr EXCEPT ![cnt] = e.code + 1], cnt |-> cnt + 1,
          code |-> to, warn |-> FALSE]

\* the release of a key with a mapping: every entry of the key is cleared
PendingRelease(e, arr, cnt, to) ==
    LET cleared == [i \in DOMAIN arr |->
                       IF i < cnt /\ arr[i] = e.code + 1 THEN 0 ELSE arr[i]]
    IN [arr |-> cleared,
        cnt |-> LastNonzeroPlus1(cleared, cnt),
        code |-> IF IsInArray(arr, cnt, e.code + 1) THEN to ELSE e.code,
        warn |-> FALSE]

PendingKey(e, arr, cnt, to) ==
    IF e.value = 1
    THEN PendingPress(e, arr, cnt, to)
    ELSE PendingRelease(e, arr, cnt, to)

\* the virtual right-alt key after the events of seq were written
RECURSIVE RightAltAfter(_, _)
RightAltAfter(down, seq) ==
    IF seq = <<>>
    THEN down
    ELSE RightAltAfter(
             IF /\ Head(seq).type = EV_KEY
                /\ Head(seq).code = KEY_RIGHTALT
                /\ Head(seq).value \in {0, 1}
             THEN Head(seq).value = 1
             ELSE down,
             Tail(seq))

\* one iteration of the event loop of src/dvorak.c for the event e
dvorak_Handle(e) ==
    LET la == dvorak_ToggleCounter(e)
        off == IF dvorak_ToggleFlips(e) THEN ~isDvorak ELSE isDvorak
        keyed == ~off /\ e.type = EV_KEY /\ e.value \in {0, 1}
        ag == IF keyed /\ e.code = KEY_RIGHTALT THEN e.value = 1 ELSE alt_gr
        rs == IF keyed /\ e.code = KEY_RIGHTSHIFT THEN e.value = 1
                                                  ELSE rshift
        ls == IF keyed /\ e.code = KEY_LEFTSHIFT THEN e.value = 1
                                                 ELSE lshift
        ms == IF keyed THEN dvorak_ModState(e, mod_state) ELSE mod_state
        branch ==
            CASE ~keyed -> "plain"
              [] keyed /\ isUmlaut /\ e.code = KEY_6 -> "key6"
              [] keyed /\ isUmlaut /\ e.code \in {KEY_Q, KEY_GRAVE} -> "quote"
              [] /\ keyed
                 /\ isUmlaut
                 /\ e.code \notin {KEY_6, KEY_Q, KEY_GRAVE}
                 /\ e.code # umlaut2dvorak(e.code)
                 /\ (ag \/ array_umlaut_counter > 0) -> "umlaut"
              [] /\ keyed
                 /\ ~(isUmlaut /\ e.code \in {KEY_6, KEY_Q, KEY_GRAVE})
                 /\ ~(/\ isUmlaut
                      /\ e.code # umlaut2dvorak(e.code)
                      /\ (ag \/ array_umlaut_counter > 0))
                 /\ e.code # qwerty2dvorak(e.code)
                 /\ (ms > 0 \/ array_qwerty_counter > 0) -> "qwerty"
              [] OTHER -> "plain"
        u == IF branch = "umlaut"
             THEN PendingKey(e, array_umlaut, array_umlaut_counter,
                             umlaut2dvorak(e.code))
             ELSE [arr |-> array_umlaut, cnt |-> array_umlaut_counter,
                   code |-> e.code, warn |-> FALSE]
        q == IF branch = "qwerty"
             THEN PendingKey(e, array_qwerty, array_qwerty_counter,
                             qwerty2dvorak(e.code))
             ELSE [arr |-> array_qwerty, cnt |-> array_qwerty_counter,
                   code |-> e.code, warn |-> FALSE]
        written ==
            CASE branch = "key6" -> Key6(e, la, ls, rs, ag)
              [] branch = "quote" -> QuoteKey(e, ag)
              [] branch = "umlaut" -> emit(e.type, u.code, e.value)
              [] branch = "qwerty" -> emit(e.type, q.code, e.value)
              [] OTHER -> emit(e.type, e.code, e.value)
    IN /\ ev' = e
       /\ lAlt' = la
       /\ isDvorak' = off
       /\ alt_gr' = ag
       /\ rshift' = rs
       /\ lshift' = ls
       /\ mod_state' = ms
       /\ array_umlaut' = u.arr
       /\ array_umlaut_counter' = u.cnt
       /\ array_qwerty' = q.arr
       /\ array_qwerty_counter' = q.cnt
       /\ out' = written
       /\ wfail' \in Failures(written)
       /\ log' = (IF dvorak_ToggleFlips(e) THEN {"mapping"} ELSE {})
                 \cup (IF u.warn \/ q.warn THEN {"warning"} ELSE {})
                 \cup (IF branch \notin {"key6", "quote"} /\ wfail' # {}
                       THEN {"Cannot write to device"} ELSE {})
       /\ vralt' = RightAltAfter(vralt, Delivered(written, wfail'))
       /\ flips' = IF dvorak_ToggleFlips(e) THEN flips + 1 ELSE flips
       /\ UNCHANGED <<noToggle, noCapsLockAsModifier, isUmlaut, l_alt,
                      disable_mapping, altRun, runFlips,
                      setup, pc, exit_status, fdi, fdo, grab, keep_running,
                      rd, hasRead, failed, writeFails, vdown, clicker>>

\* the keys of the keyboard of this loop: both shifts, right-alt, left-alt
\* (a modifier and the toggle key), the three keys of the umlaut layer's
\* own branches, of which KEY_Q has a mapping in the primary table, and a
\* key with a mapping in the umlaut table
dvorak_Keys == {KEY_LEFTSHIFT, KEY_RIGHTSHIFT, KEY_RIGHTALT, KEY_LEFTALT,
                KEY_6, KEY_Q, KEY_GRAVE, KEY_A}

\* a second keyboard for this loop: a modifier that is not the toggle key,
\* right-alt, a key of the umlaut layer's own branch with a mapping in the
\* primary table, and a key both tables map
layers_Keys == {KEY_LEFTCTRL, KEY_RIGHTALT, KEY_Q, KEY_X}

dvorak_Budget(e) == dvorak_ToggleFlips(e) => flips < MaxFlips

dvorak_Press(k) ==
    /\ k \notin held
    /\ Cardinality(held) < MaxHeld + 1
    /\ dvorak_Budget(Event(EV_KEY, k, 1))
    /\ dvorak_Handle(Event(EV_KEY, k, 1))
    /\ held' = held \cup {k}
    /\ pressOut' = [pressOut EXCEPT ![k] = out'[Len(out')].code]

dvorak_Repeat(k) ==
    /\ k \in held
    /\ dvorak_Handle(Event(EV_KEY, k, 2))
    /\ UNCHANGED <<held, pressOut>>

dvorak_Release(k) ==
    /\ k \in held
    /\ dvorak_Handle(Event(EV_KEY, k, 0))
    /\ held' = held \ {k}
    /\ pressOut' = [pressOut EXCEPT ![k] = 0]

dvorak_NonKey(e) ==
    /\ dvorak_Handle(e)
    /\ UNCHANGED <<held, pressOut>>

\* the variables of src/dvorak.c before its loop is entered
dvorak_Idle ==
    /\ lAlt = 0
    /\ isDvorak = FALSE
    /\ alt_gr = FALSE
    /\ lshift = FALSE
    /\ rshift = FALSE
    /\ array_umlaut = [i \in 0..(dvorak_MAX_LENGTH - 1) |-> 0]
    /\ array_umlaut_counter = 0
    /\ vralt = FALSE

(* ======================================================================== *)
(* src/autoclicker.c: main and its click thread                             *)
(* ======================================================================== *)
\* the owner of a mutex that no thread holds, and the main thread; the click
\* threads are numbered from 1 in the order of their creation
Unlocked == 0
MainThread == MaxThreads + 1
ClickThreads == 1..MaxThreads

At(pos, call) == [pos |-> pos, call |-> call]

\* the thread runs: it was created and has neither returned nor been killed
Alive(t) == click_at[t].pos \notin {"unborn", "terminated", "joined", "killed"}

\* the threads created so far
Created == {t \in ClickThreads : click_at[t].pos # "unborn"}

\* return of main: the process ends and its threads end with it
ProcessExit ==
    /\ main_at' = "exited"
    /\ click_at' = [t \in ClickThreads |->
                       IF Alive(t) THEN At("killed", 0) ELSE click_at[t]]

\* a lock of emit_mutex that does not wait for the mutex to be free
EmitLock_notWaiting(th) ==
    emit_mutex' = th

\* pthread_mutex_lock(&emit_mutex) of emit
EmitLock(th) ==
    /\ emit_mutex = Unlocked
    /\ emit_mutex' = th

\* pthread_mutex_unlock(&emit_mutex) of emit
EmitUnlock(th) ==
    emit_mutex' = IF emit_mutex = th THEN Unlocked ELSE emit_mutex

(* ---- main ---------------------------------------------------------------- *)
\* read returns a press of BTN_LEFT
ac_ReadPress ==
    /\ UNCHANGED remapper
    /\ main_at = "read"
    /\ main_at' = "stop_lock"
    /\ UNCHANGED <<thread_id, thread_active, lock, emit_mutex, click_at,
                   balance>>

\* read returns a release of BTN_LEFT more than 3000 ms after
\* milliseconds_start; pthread_create is called MaxThreads times at most
ac_ReadLongRelease ==
    /\ UNCHANGED remapper
    /\ main_at = "read"
    /\ thread_active \/ Cardinality(Created) < MaxThreads
    /\ main_at' = "start_lock"
    /\ UNCHANGED <<thread_id, thread_active, lock, emit_mutex, click_at,
                   balance>>

\* read returns a release of BTN_LEFT within 3000 ms, a repeat of it, or an
\* event of another button or axis
ac_ReadOther ==
    /\ UNCHANGED remapper
    /\ main_at = "read"
    /\ main_at' = "emit_lock"
    /\ UNCHANGED <<thread_id, thread_active, lock, emit_mutex, click_at,
                   balance>>

\* read fails or returns a short count: break; return EXIT_FAILURE
ac_ReadFailed ==
    /\ UNCHANGED remapper
    /\ main_at = "read"
    /\ ProcessExit
    /\ UNCHANGED <<thread_id, thread_active, lock, emit_mutex, balance>>

\* startClickThread: pthread_mutex_lock(&lock)
StartLock ==
    /\ UNCHANGED remapper
    /\ main_at = "start_lock"
    /\ lock = Unlocked
    /\ lock' = MainThread
    /\ main_at' = "start_test"
    /\ UNCHANGED <<thread_id, thread_active, emit_mutex, click_at, balance>>

\* a test that never finds the flag set
StartTest_always ==
    /\ UNCHANGED remapper
    /\ main_at = "start_test"
    /\ main_at' = "start_set"
    /\ UNCHANGED <<thread_id, thread_active, lock, emit_mutex, click_at,
                   balance>>

\* startClickThread: if (thread_active)
StartTest ==
    /\ UNCHANGED remapper
    /\ main_at = "start_test"
    /\ main_at' = IF thread_active THEN "start_return" ELSE "start_set"
    /\ UNCHANGED <<thread_id, thread_active, lock, emit_mutex, click_at,
                   balance>>

\* startClickThread: pthread_mutex_unlock(&lock); return
StartReturn ==
    /\ UNCHANGED remapper
    /\ main_at = "start_return"
    /\ lock' = Unlocked
    /\ main_at' = "emit_lock"
    /\ UNCHANGED <<thread_id, thread_active, emit_mutex, click_at, balance>>

\* startClickThread: thread_active = true
StartSet ==
    /\ UNCHANGED remapper
    /\ main_at = "start_set"
    /\ thread_active' = TRUE
    /\ main_at' = "start_unlock"
    /\ UNCHANGED <<thread_id, lock, emit_mutex, click_at, balance>>

\* startClickThread: pthread_mutex_unlock(&lock)
StartUnlock ==
    /\ UNCHANGED remapper
    /\ main_at = "start_unlock"
    /\ lock' = Unlocked
    /\ main_at' = "start_create"
    /\ UNCHANGED <<thread_id, thread_active, emit_mutex, click_at, balance>>

\* startClickThread: pthread_create(&thread_id, NULL, click, fd); its value
\* is not looked at, and when it fails thread_id keeps what it held
StartCreate ==
    /\ UNCHANGED remapper
    /\ main_at = "start_create"
    /\ main_at' = "emit_lock"
    /\ \/ /\ Created # ClickThreads
          /\ LET t == CHOOSE i \in ClickThreads \ Created :
                           \A j \in ClickThreads \ Created : i <= j
             IN /\ thread_id' = t
                /\ click_at' = [click_at EXCEPT ![t] = At("lock", 0)]
       \/ UNCHANGED <<thread_id, click_at>>
    /\ UNCHANGED <<thread_active, lock, emit_mutex, balance>>

\* stopClickThread: pthread_mutex_lock(&lock)
StopLock ==
    /\ UNCHANGED remapper
    /\ main_at = "stop_lock"
    /\ lock = Unlocked
    /\ lock' = MainThread
    /\ main_at' = "stop_test"
    /\ UNCHANGED <<thread_id, thread_active, emit_mutex, click_at, balance>>

\* stopClickThread: if (!thread_active)
StopTest ==
    /\ UNCHANGED remapper
    /\ main_at = "stop_test"
    /\ main_at' = IF ~thread_active THEN "stop_return" ELSE "stop_clear"
    /\ UNCHANGED <<thread_id, thread_active, lock, emit_mutex, click_at,
                   balance>>

\* stopClickThread: pthread_mutex_unlock(&lock); return
StopReturn ==
    /\ UNCHANGED remapper
    /\ main_at = "stop_return"
    /\ lock' = Unlocked
    /\ main_at' = "emit_lock"
    /\ UNCHANGED <<thread_id, thread_active, emit_mutex, click_at, balance>>

\* stopClickThread: thread_active = false
StopClear ==
    /\ UNCHANGED remapper
    /\ main_at = "stop_clear"
    /\ thread_active' = FALSE
    /\ main_at' = "stop_unlock"
    /\ UNCHANGED <<thread_id, lock, emit_mutex, click_at, balance>>

\* stopClickThread: pthread_mutex_unlock(&lock)
StopUnlock ==
    /\ UNCHANGED remapper
    /\ main_at = "stop_unlock"
    /\ lock' = Unlocked
    /\ main_at' = "stop_join"
    /\ UNCHANGED <<thread_id, thread_active, emit_mutex, click_at, balance>>

\* a join that returns without waiting for the thread to end
StopJoin_notWaiting ==
    /\ UNCHANGED remapper
    /\ main_at = "stop_join"
    /\ main_at' = "emit_lock"
    /\ UNCHANGED <<thread_id, thread_active, lock, emit_mutex, click_at,
                   balance>>

\* stopClickThread: pthread_join(thread_id, NULL).  It returns once the
\* thread has ended.  When pthread_create had failed, thread_id names no
\* thread or one joined before and the call is undefined: it returns at
\* once, never returns, or ends the process.
StopJoin ==
    /\ UNCHANGED remapper
    /\ main_at = "stop_join"
    /\ IF thread_id \in ClickThreads /\ click_at[thread_id].pos # "joined"
       THEN /\ click_at[thread_id].pos = "terminated"
            /\ click_at' = [click_at EXCEPT ![thread_id] = At("joined", 0)]
            /\ main_at' = "emit_lock"
       ELSE \/ main_at' = "emit_lock" /\ UNCHANGED click_at
            \/ ProcessExit
    /\ UNCHANGED <<thread_id, thread_active, lock, emit_mutex, balance>>

\* emit(fdo, ev.type, ev.code, ev.value) of main: the lock,
MainEmitLock ==
    /\ UNCHANGED remapper
    /\ main_at = "emit_lock"
    /\ EmitLock(MainThread)
    /\ main_at' = "emit_write"
    /\ UNCHANGED <<thread_id, thread_active, lock, click_at, balance>>

\* the write,
MainEmitWrite ==
    /\ UNCHANGED remapper
    /\ main_at = "emit_write"
    /\ main_at' = "emit_unlock"
    /\ UNCHANGED <<thread_id, thread_active, lock, emit_mutex, click_at,
                   balance>>

\* and the unlock
MainEmitUnlock ==
    /\ UNCHANGED remapper
    /\ main_at = "emit_unlock"
    /\ EmitUnlock(MainThread)
    /\ main_at' = "read"
    /\ UNCHANGED <<thread_id, thread_active, lock, click_at, balance>>

(* ---- click --------------------------------------------------------------- *)
\* the thread t goes to the statement at
Goto(t, pos, call) == click_at' = [click_at EXCEPT ![t] = At(pos, call)]

\* click: pthread_mutex_lock(&lock)
ClickLock(t) ==
    /\ UNCHANGED remapper
    /\ main_at # "exited"
    /\ click_at[t] = At("lock", 0)
    /\ lock = Unlocked
    /\ lock' = t
    /\ Goto(t, "test", 0)
    /\ UNCHANGED <<thread_id, thread_active, emit_mutex, main_at, balance>>

\* click: if (!thread_active)
ClickTest(t) ==
    /\ UNCHANGED remapper
    /\ click_at[t] = At("test", 0)
    /\ IF ~thread_active THEN Goto(t, "exit", 0) ELSE Goto(t, "unlock", 0)
    /\ UNCHANGED <<thread_id, thread_active, lock, emit_mutex, main_at,
                   balance>>

\* click: pthread_mutex_unlock(&lock); break; return NULL
ClickExit(t) ==
    /\ UNCHANGED remapper
    /\ click_at[t] = At("exit", 0)
    /\ lock' = Unlocked
    /\ Goto(t, "terminated", 0)
    /\ UNCHANGED <<thread_id, thread_active, emit_mutex, main_at, balance>>

\* click: pthread_mutex_unlock(&lock)
ClickUnlock(t) ==
    /\ UNCHANGED remapper
    /\ click_at[t] = At("unlock", 0)
    /\ lock' = Unlocked
    /\ Goto(t, "emit_lock", 1)
    /\ UNCHANGED <<thread_id, thread_active, emit_mutex, main_at, balance>>

\* the four calls of emit in click: press, sync, release, sync
ClickEmitLock(t, call) ==
    /\ UNCHANGED remapper
    /\ click_at[t] = At("emit_lock", call)
    /\ EmitLock(t)
    /\ Goto(t, "emit_write", call)
    /\ UNCHANGED <<thread_id, thread_active, lock, main_at, balance>>

ClickEmitWrite(t, call) ==
    /\ UNCHANGED remapper
    /\ click_at[t] = At("emit_write", call)
    /\ Goto(t, "emit_unlock", call)
    /\ balance' = [balance EXCEPT
                      ![t] = CASE call = 1 -> balance[t] + 1
                               [] call = 3 -> balance[t] - 1
                               [] OTHER -> balance[t]]
    /\ UNCHANGED <<thread_id, thread_active, lock, emit_mutex, main_at>>

ClickEmitUnlock(t, call) ==
    /\ UNCHANGED remapper
    /\ click_at[t] = At("emit_unlock", call)
    /\ EmitUnlock(t)
    /\ IF call \in {1, 3}
       THEN Goto(t, "emit_lock", call + 1)
       ELSE Goto(t, "usleep", call)
    /\ UNCHANGED <<thread_id, thread_active, lock, main_at, balance>>

\* click: usleep(100 * 1000), after the second and the fourth call of emit
ClickSleep(t, call) ==
    /\ UNCHANGED remapper
    /\ click_at[t] = At("usleep", call)
    /\ IF call = 2 THEN Goto(t, "emit_lock", 3) ELSE Goto(t, "lock", 0)
    /\ UNCHANGED <<thread_id, thread_active, lock, emit_mutex, main_at,
                   balance>>

\* src/autoclicker.c before main is started
click_Idle ==
    /\ thread_id = 0
    /\ thread_active = FALSE
    /\ lock = Unlocked
    /\ emit_mutex = Unlocked
    /\ main_at = "read"
    /\ click_at = [t \in ClickThreads |-> At("unborn", 0)]
    /\ balance = [t \in ClickThreads |-> 0]

(* ======================================================================== *)
(* Start-up and shutdown of main                                            *)
(* ======================================================================== *)
\* a C string is a sequence of characters, a character a string of length 1
Upper == <<"A", "B", "C", "D", "E", "F", "G", "H", "I", "J", "K", "L", "M",
           "N", "O", "P", "Q", "R", "S", "T", "U", "V", "W", "X", "Y", "Z">>
Lower == <<"a", "b", "c", "d", "e", "f", "g", "h", "i", "j", "k", "l", "m",
           "n", "o", "p", "q", "r", "s", "t", "u", "v", "w", "x", "y", "z">>

\* tolower of the C locale
tolower(c) ==
    IF \E i \in DOMAIN Upper : Upper[i] = c
    THEN Lower[CHOOSE i \in DOMAIN Upper : Upper[i] = c]
    ELSE c

\* usetup.name
VirtualName == <<"V", "i", "r", "t", "u", "a", "l", " ",
                 "D", "v", "o", "r", "a", "k", " ",
                 "K", "e", "y", "b", "o", "a", "r", "d">>

\* the option was not given
NULL == <<>>

\* a comparison that never finds the two names equal
strcmp0_never(a, b) == FALSE

\* strcmp(a, b) == 0
strcmp0(a, b) == a = b

\* strcasestr(haystack, needle) != NULL
strcasestr(haystack, needle) ==
    \E off \in 0..(Len(haystack) - Len(needle)) :
        \A i \in 1..Len(needle) :
            tolower(haystack[off + i]) = tolower(needle[i])

\* the tokens strtok(s, " ") returns one after the other: leading spaces
\* are skipped, a token ends at the next space or at the end of the string
RECURSIVE strtok(_)
strtok(s) ==
    IF s = <<>>
    THEN <<>>
    ELSE IF Head(s) = " "
         THEN strtok(Tail(s))
         ELSE LET n == IF \E i \in 1..Len(s) : s[i] = " "
                       THEN (CHOOSE i \in 1..Len(s) :
                                 /\ s[i] = " "
                                 /\ \A j \in 1..(i - 1) : s[j] # " ") - 1
                       ELSE Len(s)
              IN <<SubSeq(s, 1, n)>> \o strtok(SubSeq(s, n + 1, Len(s)))

\* the keyword loop that accepts every device
KeywordFound_always(name, m) == TRUE

\* the keyword loop of main leaves ret_val at 0
KeywordFound(name, m) ==
    \E t \in 1..Len(strtok(m)) : strcasestr(name, strtok(m)[t])

EV_REL == 2
EV_SW == 5
KEY_MAX == 767
REL_MAX == 15
ABS_MAX == 63
MSC_MAX == 7
REL_X == 0
ABS_X == 0
ABS_Y == 1
MSC_SCAN == 4

has_event_type(bits, event_type) == event_type \in bits

\* a loop that also visits bit 0, set or not
Eligible_withBitZero(array_bit, max_val) ==
    {i \in array_bit \cup {0} : i < max_val}

\* the bits setup_event_type visits: the set bits below max_val
Eligible(array_bit, max_val) == {i \in array_bit : i < max_val}

\* the results of the ioctl calls setup_event_type makes for one bit
Outcomes(event_type) ==
    IF event_type = "UI_SET_ABSBIT"
    THEN {"ok", "get_fail", "setup_fail", "set_fail"}
    ELSE {"ok", "set_fail"}

SetMin(S) == CHOOSE i \in S : \A j \in S : i <= j

\* the loop of setup_event_type over the bits in todo, in ascending order
RECURSIVE setup_loop(_, _, _, _, _, _)
setup_loop(event_type, todo, io, reg, info, abs_init_once) ==
    IF todo = {}
    THEN [ok |-> TRUE, reg |-> reg, info |-> info]
    ELSE LET i == SetMin(todo)
             first == event_type = "UI_SET_ABSBIT" /\ ~abs_init_once
         IN IF first /\ io[i] \in {"get_fail", "setup_fail"}
            THEN setup_loop(event_type, todo \ {i}, io, reg, info,
                            abs_init_once)
            ELSE LET info2 == IF first THEN info \cup {i} ELSE info
                 IN IF io[i] = "set_fail"
                    THEN [ok |-> FALSE, reg |-> reg, info |-> info2]
                    ELSE setup_loop(event_type, todo \ {i}, io,
                                    reg \cup {i}, info2,
                                    abs_init_once \/ first)

setup_event_type(event_type, max_val, array_bit, io) ==
    setup_loop(event_type, Eligible(array_bit, max_val), io, {}, {}, FALSE)

\* the device is a keyboard: it has the keys X, C and V
IsKeyboard(bits) == {KEY_X, KEY_C, KEY_V} \subseteq bits

\* return without a close: the input device was not opened
ReturnUnopened(status) ==
    /\ pc' = "exited"
    /\ exit_status' = status
    /\ UNCHANGED <<fdi, fdo, grab>>

\* close(fdi); return status
Return(status) ==
    /\ pc' = "exited"
    /\ exit_status' = status
    /\ fdi' = "closed"
    /\ UNCHANGED <<fdo, grab>>

\* a return that closes the input device only
ReturnBoth_inputOnly(status) ==
    /\ pc' = "exited"
    /\ exit_status' = status
    /\ fdi' = "closed"
    /\ grab' = IF grab = "held" THEN "released" ELSE grab
    /\ UNCHANGED fdo

\* close(fdo); close(fdi); return status
ReturnBoth(status) ==
    /\ pc' = "exited"
    /\ exit_status' = status
    /\ fdo' = "closed"
    /\ fdi' = "closed"
    /\ grab' = IF grab = "held" THEN "released" ELSE grab

\* fall through to the next statement of main
Step(p) ==
    /\ pc' = p
    /\ UNCHANGED <<exit_status, fdi, fdo, grab, failed>>

\* a return of main that no failed system call has caused
Leave(return) ==
    /\ return
    /\ UNCHANGED failed

\* a return of main after the system call has failed
Fail(call, return) ==
    /\ return
    /\ failed' = call

OpenInput ==
    /\ pc = "open_fdi"
    /\ \/ /\ fdi' = "open"
          /\ pc' = "get_name"
          /\ UNCHANGED <<exit_status, fdo, grab, failed>>
       \/ Fail("open", ReturnUnopened("EXIT_FAILURE"))
    /\ UNCHANGED <<engine, setup, keep_running, rd, hasRead>>

GetName ==
    /\ pc = "get_name"
    /\ \/ /\ keyboard_name' = device.name
          /\ Step("self_check")
       \/ /\ Fail("EVIOCGNAME", Return("EXIT_FAILURE"))
          /\ UNCHANGED keyboard_name
    /\ UNCHANGED <<engine, device, match, bitmaps, uinput, keep_running,
                   rd, hasRead>>

SelfCheck ==
    /\ pc = "self_check"
    /\ IF strcmp0(keyboard_name, VirtualName)
       THEN Leave(Return("EXIT_SUCCESS"))
       ELSE Step("match")
    /\ UNCHANGED <<engine, setup, keep_running, rd, hasRead>>

KeywordFilter ==
    /\ pc = "match"
    /\ IF match # NULL /\ ~KeywordFound(keyboard_name, match[1])
       THEN Leave(Return("EXIT_FAILURE"))
       ELSE Step("bits_ev")
    /\ UNCHANGED <<engine, setup, keep_running, rd, hasRead>>

ReadEvBits ==
    /\ pc = "bits_ev"
    /\ \/ /\ array_bit_ev' = device.ev
          /\ Step("bits_key")
       \/ /\ Fail("EVIOCGBIT", Return("EXIT_FAILURE"))
          /\ UNCHANGED array_bit_ev
    /\ UNCHANGED <<engine, device, match, keyboard_name, array_bit_key,
                   array_bit_rel, array_bit_abs, array_bit_msc, uinput,
                   keep_running, rd, hasRead>>

ReadKeyBits ==
    /\ pc = "bits_key"
    /\ IF has_event_type(array_bit_ev, EV_KEY)
       THEN \/ /\ array_bit_key' = device.key
               /\ Step("bits_rel")
            \/ /\ Fail("EVIOCGBIT", Return("EXIT_FAILURE"))
               /\ UNCHANGED array_bit_key
       ELSE /\ Step("bits_rel")
            /\ UNCHANGED array_bit_key
    /\ UNCHANGED <<engine, device, match, keyboard_name, array_bit_ev,
                   array_bit_rel, array_bit_abs, array_bit_msc, uinput,
                   keep_running, rd, hasRead>>

ReadRelBits ==
    /\ pc = "bits_rel"
    /\ IF has_event_type(array_bit_ev, EV_REL)
       THEN \/ /\ array_bit_rel' = device.rel
               /\ Step("bits_abs")
            \/ /\ Fail("EVIOCGBIT", Return("EXIT_FAILURE"))
               /\ UNCHANGED array_bit_rel
       ELSE /\ Step("bits_abs")
            /\ UNCHANGED array_bit_rel
    /\ UNCHANGED <<engine, device, match, keyboard_name, array_bit_ev,
                   array_bit_key, array_bit_abs, array_bit_msc, uinput,
                   keep_running, rd, hasRead>>

ReadAbsBits ==
    /\ pc = "bits_abs"
    /\ IF has_event_type(array_bit_ev, EV_ABS)
       THEN \/ /\ array_bit_abs' = device.abs
               /\ Step("bits_msc")
            \/ /\ Fail("EVIOCGBIT", Return("EXIT_FAILURE"))
               /\ UNCHANGED array_bit_abs
       ELSE /\ Step("bits_msc")
            /\ UNCHANGED array_bit_abs
    /\ UNCHANGED <<engine, device, match, keyboard_name, array_bit_ev,
                   array_bit_key, array_bit_rel, array_bit_msc, uinput,
                   keep_running, rd, hasRead>>

ReadMscBits ==
    /\ pc = "bits_msc"
    /\ IF has_event_type(array_bit_ev, EV_MSC)
       THEN \/ /\ array_bit_msc' = device.msc
               /\ Step("keyboard_check")
            \/ /\ Fail("EVIOCGBIT", Return("EXIT_FAILURE"))
               /\ UNCHANGED array_bit_msc
       ELSE /\ Step("keyboard_check")
            /\ UNCHANGED array_bit_msc
    /\ UNCHANGED <<engine, device, match, keyboard_name, array_bit_ev,
                   array_bit_key, array_bit_rel, array_bit_abs, uinput,
                   keep_running, rd, hasRead>>

KeyboardCheck ==
    /\ pc = "keyboard_check"
    /\ IF ~IsKeyboard(array_bit_key)
       THEN Leave(Return("EXIT_SUCCESS"))
       ELSE Step("open_fdo")
    /\ UNCHANGED <<engine, setup, keep_running, rd, hasRead>>

OpenUinput ==
    /\ pc = "open_fdo"
    /\ \/ /\ fdo' = "open"
          /\ pc' = "dev_setup"
          /\ UNCHANGED <<exit_status, fdi, grab, failed>>
       \/ Fail("open", Return("EXIT_FAILURE"))
    /\ UNCHANGED <<engine, setup, keep_running, rd, hasRead>>

DevSetup ==
    /\ pc = "dev_setup"
    /\ \/ /\ uinput' = [uinput EXCEPT !.name = VirtualName]
          /\ Step("set_ev")
       \/ /\ Fail("UI_DEV_SETUP", ReturnBoth("EXIT_FAILURE"))
          /\ UNCHANGED uinput
    /\ UNCHANGED <<engine, device, match, keyboard_name, bitmaps,
                   keep_running, rd, hasRead>>

\* one call of setup_event_type from main, with its failure branch
SetupType(p, event_type, max_val, array_bit, field, next) ==
    /\ pc = p
    /\ \E io \in [Eligible(array_bit, max_val) -> Outcomes(event_type)] :
          LET r == setup_event_type(event_type, max_val, array_bit, io)
          IN /\ uinput' = [uinput EXCEPT
                               ![field] = r.reg,
                               !.absinfo = uinput.absinfo \cup r.info]
             /\ IF r.ok THEN Step(next) ELSE Fail(event_type,
                                           ReturnBoth("EXIT_FAILURE"))
    /\ UNCHANGED <<engine, device, match, keyboard_name, bitmaps,
                   keep_running, rd, hasRead>>

SetupEv ==
    SetupType("set_ev", "UI_SET_EVBIT", EV_SW, array_bit_ev, "evbit",
              "set_key")
SetupKey ==
    SetupType("set_key", "UI_SET_KEYBIT", KEY_MAX, array_bit_key, "keybit",
              "set_rel")
SetupRel ==
    SetupType("set_rel", "UI_SET_RELBIT", REL_MAX, array_bit_rel, "relbit",
              "set_abs")
SetupAbs ==
    SetupType("set_abs", "UI_SET_ABSBIT", ABS_MAX, array_bit_abs, "absbit",
              "set_msc")
SetupMsc ==
    SetupType("set_msc", "UI_SET_MSCBIT", MSC_MAX, array_bit_msc, "mscbit",
              "create")

DevCreate ==
    /\ pc = "create"
    /\ \/ /\ uinput' = [uinput EXCEPT !.created = TRUE]
          /\ Step("grab")
       \/ /\ Fail("UI_DEV_CREATE", ReturnBoth("EXIT_FAILURE"))
          /\ UNCHANGED uinput
    /\ UNCHANGED <<engine, device, match, keyboard_name, bitmaps,
                   keep_running, rd, hasRead>>

\* a grab that does not end main when the ioctl fails
Grab_ignoringFailure ==
    /\ pc = "grab"
    /\ \/ /\ grab' = "held"
          /\ UNCHANGED failed
          /\ pc' = "loop"
          /\ UNCHANGED <<exit_status, fdi, fdo>>
       \/ /\ grab' = "failed"
          /\ failed' = "EVIOCGRAB"
          /\ pc' = "loop"
          /\ UNCHANGED <<exit_status, fdi, fdo>>
    /\ UNCHANGED <<engine, setup, keep_running, rd, hasRead>>

Grab ==
    /\ pc = "grab"
    /\ \/ /\ grab' = "held"
          /\ UNCHANGED failed
          /\ pc' = "loop"
          /\ UNCHANGED <<exit_status, fdi, fdo>>
       \/ /\ grab' = "failed"
          /\ failed' = "EVIOCGRAB"
          /\ pc' = "exited"
          /\ exit_status' = "EXIT_FAILURE"
          /\ fdo' = "closed"
          /\ fdi' = "closed"
    /\ UNCHANGED <<engine, setup, keep_running, rd, hasRead>>

\* while (keep_running), and the statements after the loop
LoopTest ==
    /\ pc = "loop"
    /\ IF keep_running THEN Step("read") ELSE Leave(ReturnBoth("EXIT_SUCCESS"))
    /\ UNCHANGED <<engine, setup, keep_running, rd, hasRead>>

\* a loop that is left when a write of the event's handling has failed
ReadEvent_leavingOnFailure(e) ==
    /\ Handle(e)
    /\ pc' = IF wfail' = {} THEN "loop" ELSE "exited"
    /\ UNCHANGED <<keep_running, held, pressOut, vdown>>

\* read returns a whole event
ReadEvent(e) ==
    /\ Handle(e)
    /\ pc' = "loop"
    /\ UNCHANGED <<keep_running, held, pressOut, vdown>>

\* read returns -1 with errno EINTR
ReadInterrupted ==
    /\ pc = "read"
    /\ rd' = "EINTR"
    /\ Step("loop")
    /\ UNCHANGED <<engine, setup, keep_running, hasRead>>

\* read returns -1 with another errno, or fewer bytes than an event has:
\* break, then the statements after the loop
ReadFailed ==
    /\ pc = "read"
    /\ rd' \in {"error", "short"}
    /\ Fail("read", ReturnBoth("EXIT_SUCCESS"))
    /\ UNCHANGED <<engine, setup, keep_running, hasRead>>

\* SIGTERM is delivered: sig_handler clears keep_running
Sigterm ==
    /\ pc # "exited"
    /\ keep_running
    /\ keep_running' = FALSE
    /\ UNCHANGED <<engine, setup, pc, exit_status, fdi, fdo, grab, rd,
                   hasRead, failed>>

(* ---- devices and options ------------------------------------------------ *)
Seqs(S, n) == UNION {[1..k -> S] : k \in 0..n}

\* a keyboard with a relative axis, two absolute axes and a switch
FullKeyboard ==
    [name |-> <<"K", "b">>,
     ev |-> {EV_SYN, EV_KEY, EV_REL, EV_ABS, EV_MSC, EV_SW},
     key |-> {KEY_X, KEY_C, KEY_V},
     rel |-> {REL_X},
     abs |-> {ABS_X, ABS_Y},
     msc |-> {MSC_SCAN}]

\* the bitmap of an event type is read only when the type's bit is set
CapabilitySets ==
    {c \in [ev : SUBSET {EV_KEY, EV_REL, EV_ABS, EV_MSC, EV_SW},
            key : SUBSET {KEY_X, KEY_C, KEY_V},
            rel : SUBSET {REL_X},
            abs : SUBSET {ABS_X, ABS_Y},
            msc : {{MSC_SCAN}}] :
        /\ EV_KEY \notin c.ev => c.key = {}
        /\ EV_REL \notin c.ev => c.rel = {}
        /\ EV_ABS \notin c.ev => c.abs = {}
        /\ EV_ABS \in c.ev => c.abs # {}}

DevicesByCapability ==
    {[name |-> n, ev |-> c.ev \cup {EV_SYN}, key |-> c.key, rel |-> c.rel,
      abs |-> c.abs, msc |-> c.msc] :
        n \in {VirtualName, <<"K", "b">>}, c \in CapabilitySets}

MatchesFew == {NULL, <<<<"k">>>>, <<<<"x">>>>}

LogitechK360 == <<"L", "o", "g", "i", "t", "e", "c", "h", " ",
                  "K", "3", "6", "0">>
GenericKeyboard == <<"G", "e", "n", "e", "r", "i", "c", " ",
                     "K", "e", "y", "b", "o", "a", "r", "d">>
k360_k750 == <<"k", "3", "6", "0", " ", "k", "7", "5", "0">>

DevicesByName ==
    {[FullKeyboard EXCEPT !.name = n] :
        n \in (Seqs({"K", "b"}, MaxName) \ {<<>>})
              \cup {VirtualName, LogitechK360, GenericKeyboard}}

MatchesMany ==
    {NULL} \cup {<<m>> : m \in Seqs({"k", "B", " "}, MaxMatch)
                                \cup {k360_k750}}

NoUinput ==
    [name |-> <<>>, evbit |-> {}, keybit |-> {}, relbit |-> {},
     absbit |-> {}, mscbit |-> {}, absinfo |-> {}, created |-> FALSE]

EngineInit ==
    /\ l_alt = 0
    /\ mod_state = 0
    /\ array_qwerty_counter = 0
    /\ disable_mapping = FALSE
    /\ array_qwerty = [i \in 0..(MAX_LENGTH - 1) |-> 0]
    /\ ev = Event(0, 0, 0)
    /\ out = <<>>
    /\ log = {}
    /\ held = {}
    /\ pressOut = [k \in Keys |-> 0]
    /\ altRun = 0
    /\ runFlips = 0
    /\ flips = 0
    /\ rd = "none"
    /\ hasRead = FALSE
    /\ failed = "none"
    /\ wfail = {}
    /\ vdown = {}
    /\ isUmlaut = FALSE
    /\ dvorak_Idle
    /\ click_Idle

\* main is started
Started ==
    /\ pc = "open_fdi"
    /\ exit_status = "running"
    /\ fdi = "none"
    /\ fdo = "none"
    /\ grab = "none"
    /\ keep_running = TRUE
    /\ keyboard_name = <<"U", "n", "k", "n", "o", "w", "n">>
    /\ array_bit_ev = {}
    /\ array_bit_key = {}
    /\ array_bit_rel = {}
    /\ array_bit_abs = {}
    /\ array_bit_msc = {}
    /\ uinput = NoUinput

\* main has reached the event loop on the keyboard FullKeyboard
Looping ==
    /\ pc = "read"
    /\ exit_status = "running"
    /\ fdi = "open"
    /\ fdo = "open"
    /\ grab = "held"
    /\ keep_running = TRUE
    /\ device = FullKeyboard
    /\ match = NULL
    /\ keyboard_name = FullKeyboard.name
    /\ array_bit_ev = FullKeyboard.ev
    /\ array_bit_key = FullKeyboard.key
    /\ array_bit_rel = FullKeyboard.rel
    /\ array_bit_abs = FullKeyboard.abs
    /\ array_bit_msc = FullKeyboard.msc
    /\ uinput = [name |-> VirtualName,
                 evbit |-> Eligible(FullKeyboard.ev, EV_SW),
                 keybit |-> FullKeyboard.key,
                 relbit |-> FullKeyboard.rel,
                 absbit |-> FullKeyboard.abs,
                 mscbit |-> FullKeyboard.msc,
                 absinfo |-> {ABS_X},
                 created |-> TRUE]

Init ==
    /\ noToggle \in BOOLEAN
    /\ noCapsLockAsModifier \in BOOLEAN
    /\ writeFails = FALSE
    /\ EngineInit
    /\ Looping

Next ==
    \/ \E k \in Keys : Press(k)
    \/ \E k \in Keys : Repeat(k)
    \/ \E k \in Keys : Release(k)
    \/ \E e \in PlainEvents : NonKey(e)
    \/ \E e \in AxisEvents : Axis(e)

Spec == Init /\ [][Next]_vars

\* a keyboard without absolute axes: key, sync and scan-code events only
NextKeyboard ==
    \/ \E k \in Keys : Press(k)
    \/ \E k \in Keys : Repeat(k)
    \/ \E k \in Keys : Release(k)
    \/ \E e \in PlainEvents : NonKey(e)

SpecKeyboard == Init /\ [][NextKeyboard]_vars

NextStartup ==
    \/ OpenInput
    \/ GetName
    \/ SelfCheck
    \/ KeywordFilter
    \/ ReadEvBits
    \/ ReadKeyBits
    \/ ReadRelBits
    \/ ReadAbsBits
    \/ ReadMscBits
    \/ KeyboardCheck
    \/ OpenUinput
    \/ DevSetup
    \/ SetupEv
    \/ SetupKey
    \/ SetupRel
    \/ SetupAbs
    \/ SetupMsc
    \/ DevCreate
    \/ Grab
    \/ LoopTest
    \/ \E e \in PlainEvents : ReadEvent(e)
    \/ ReadInterrupted
    \/ ReadFailed
    \/ Sigterm

\* main from its start, on devices of every capability
InitStartup ==
    /\ noToggle = FALSE
    /\ noCapsLockAsModifier = FALSE
    /\ writeFails = FALSE
    /\ EngineInit
    /\ Started
    /\ device \in DevicesByCapability
    /\ match \in MatchesFew

SpecStartup == InitStartup /\ [][NextStartup]_vars

\* main from its start, on keyboards of every name with every option -m
InitFilter ==
    /\ noToggle = FALSE
    /\ noCapsLockAsModifier = FALSE
    /\ writeFails = FALSE
    /\ EngineInit
    /\ Started
    /\ device \in DevicesByName
    /\ match \in MatchesMany

SpecFilter == InitFilter /\ [][NextStartup]_vars

dvorak_Next ==
    \/ \E k \in dvorak_Keys : dvorak_Press(k)
    \/ \E k \in dvorak_Keys : dvorak_Repeat(k)
    \/ \E k \in dvorak_Keys : dvorak_Release(k)
    \/ \E e \in PlainEvents : dvorak_NonKey(e)

\* src/dvorak.c at the start of its loop, with and without options -u, -t
dvorak_Init ==
    /\ noToggle \in BOOLEAN
    /\ noCapsLockAsModifier = FALSE
    /\ isUmlaut \in BOOLEAN
    /\ dvorak_Idle
    /\ mod_state = 0
    /\ array_qwerty_counter = 0
    /\ array_qwerty = [i \in 0..(dvorak_MAX_LENGTH - 1) |-> 0]
    /\ ev = Event(0, 0, 0)
    /\ out = <<>>
    /\ log = {}
    /\ held = {}
    /\ l_alt = 0
    /\ disable_mapping = FALSE
    /\ pressOut = [k \in dvorak_Keys \cup layers_Keys |-> 0]
    /\ altRun = 0
    /\ runFlips = 0
    /\ flips = 0
    /\ rd = "none"
    /\ hasRead = FALSE
    /\ failed = "none"
    /\ writeFails = FALSE
    /\ wfail = {}
    /\ vdown = {}
    /\ click_Idle
    /\ Looping

SpecDvorak == dvorak_Init /\ [][dvorak_Next]_vars

layers_Next ==
    \/ \E k \in layers_Keys : dvorak_Press(k)
    \/ \E k \in layers_Keys : dvorak_Repeat(k)
    \/ \E k \in layers_Keys : dvorak_Release(k)
    \/ \E e \in PlainEvents : dvorak_NonKey(e)

\* the loop of src/dvorak.c on the second keyboard
SpecLayers == dvorak_Init /\ [][layers_Next]_vars

\* the statements of main that return without waiting for the keyboard or
\* for a signal: every statement but the read of the loop
Progress ==
    \/ OpenInput
    \/ GetName
    \/ SelfCheck
    \/ KeywordFilter
    \/ ReadEvBits
    \/ ReadKeyBits
    \/ ReadRelBits
    \/ ReadAbsBits
    \/ ReadMscBits
    \/ KeyboardCheck
    \/ OpenUinput
    \/ DevSetup
    \/ SetupEv
    \/ SetupKey
    \/ SetupRel
    \/ SetupAbs
    \/ SetupMsc
    \/ DevCreate
    \/ Grab
    \/ LoopTest

\* main with its own statements always going on; the read of the loop
\* blocks until the keyboard sends an event or the call is interrupted, and
\* signal() of line 272 installs the handler with SA_RESTART, so that
\* neither is bound to happen
SpecShutdown == InitStartup /\ [][NextStartup]_vars /\ WF_vars(Progress)

\* the events read in the loop below: presses, repeats and releases of a
\* modifier, of the toggle key and of a key with an alternate mapping, in
\* any order, and a sync report
LoopEvents ==
    {Event(EV_KEY, k, v) : k \in {KEY_LEFTCTRL, KEY_LEFTALT, KEY_Q},
                           v \in {0, 1, 2}}
        \cup {Event(EV_SYN, 0, 0)}

\* an event of the keyboard is read, the mapping flipped MaxFlips times at
\* most
KeyboardEvent(e) ==
    /\ Budget(e)
    /\ ReadEvent(e)

NextLoop ==
    \/ LoopTest
    \/ \E e \in LoopEvents : KeyboardEvent(e)
    \/ ReadInterrupted
    \/ ReadFailed
    \/ Sigterm

\* the loop of main on a virtual device that may reject writes
InitLoop ==
    /\ noToggle = FALSE
    /\ noCapsLockAsModifier = FALSE
    /\ writeFails = TRUE
    /\ EngineInit
    /\ Looping

SpecLoop == InitLoop /\ [][NextLoop]_vars

click_Next ==
    \/ ac_ReadPress
    \/ ac_ReadLongRelease
    \/ ac_ReadOther
    \/ ac_ReadFailed
    \/ StartLock
    \/ StartTest
    \/ StartReturn
    \/ StartSet
    \/ StartUnlock
    \/ StartCreate
    \/ StopLock
    \/ StopTest
    \/ StopReturn
    \/ StopClear
    \/ StopUnlock
    \/ StopJoin
    \/ MainEmitLock
    \/ MainEmitWrite
    \/ MainEmitUnlock
    \/ \E t \in ClickThreads : ClickLock(t)
    \/ \E t \in ClickThreads : ClickTest(t)
    \/ \E t \in ClickThreads : ClickExit(t)
    \/ \E t \in ClickThreads : ClickUnlock(t)
    \/ \E t \in ClickThreads, call \in 1..4 : ClickEmitLock(t, call)
    \/ \E t \in ClickThreads, call \in 1..4 : ClickEmitWrite(t, call)
    \/ \E t \in ClickThreads, call \in 1..4 : ClickEmitUnlock(t, call)
    \/ \E t \in ClickThreads, call \in {2, 4} : ClickSleep(t, call)

\* main of src/autoclicker.c at the first read of its loop
click_Init ==
    /\ noToggle = FALSE
    /\ noCapsLockAsModifier = FALSE
    /\ writeFails = FALSE
    /\ EngineInit
    /\ Looping

SpecClicker == click_Init /\ [][click_Next]_vars

(* ---- the layout map on every key code ------------------------------------ *)
\* the key codes of an event: 0 up to KEY_MAX
KeyCodes == 0..KEY_MAX

\* the case labels of qwerty2dvorak
ListedKeys ==
    {KEY_MINUS, KEY_EQUAL, KEY_Q, KEY_W, KEY_E, KEY_R, KEY_T, KEY_Y, KEY_U,
     KEY_I, KEY_O, KEY_P, KEY_LEFTBRACE, KEY_RIGHTBRACE, KEY_A, KEY_S,
     KEY_D, KEY_F, KEY_G, KEY_H, KEY_J, KEY_K, KEY_L, KEY_SEMICOLON,
     KEY_APOSTROPHE, KEY_Z, KEY_X, KEY_C, KEY_V, KEY_B, KEY_N, KEY_M,
     KEY_COMMA, KEY_DOT, KEY_SLASH}

\* a keyboard of every key code, on which left control and one further key
\* are held at most: the key k is pressed (v = 1), repeats (v = 2) or is
\* released (v = 0)
layout_Key(k, v) ==
    /\ IF v = 1
       THEN k \notin held /\ held \subseteq {KEY_LEFTCTRL}
       ELSE k \in held
    /\ Handle(Event(EV_KEY, k, v))
    /\ held' = CASE v = 1 -> held \cup {k}
                 [] v = 0 -> held \ {k}
                 [] OTHER -> held
    /\ pressOut' = IF k \in DOMAIN pressOut /\ v # 2
                   THEN [pressOut EXCEPT
                            ![k] = IF v = 1 /\ out' # <<>>
                                   THEN out'[1].code ELSE 0]
                   ELSE pressOut
    /\ vdown' = DownAfter(vdown, out')
    /\ UNCHANGED <<pc, keep_running>>

layout_Next == \E k \in KeyCodes, v \in 0..2 : layout_Key(k, v)

\* the loop entered with option -t
layout_Init ==
    /\ noToggle = TRUE
    /\ noCapsLockAsModifier = FALSE
    /\ writeFails = FALSE
    /\ EngineInit
    /\ Looping

SpecLayout == layout_Init /\ [][layout_Next]_vars

TypeOK ==
    /\ l_alt \in 0..2
    /\ array_qwerty_counter \in 0..MAX_LENGTH
    /\ mod_state \in 0..31

(* ======================================================================== *)
(* Properties                                                               *)
(* ======================================================================== *)
\* the pending array holds an entry for the physical key k
Pending(k) ==
    /\ qwerty2dvorak(k) # k
    /\ \E i \in 0..(MAX_LENGTH - 1) : array_qwerty[i] = qwerty2dvorak(k)

Occupied == {i \in 0..(MAX_LENGTH - 1) : array_qwerty[i] # 0}

IsKeyEvent(e, v) == e.type = EV_KEY /\ e.value = v

TableUnchanged ==
    /\ array_qwerty' = array_qwerty
    /\ array_qwerty_counter' = array_qwerty_counter

\* C1 (no stuck key): when a held key k was pressed with the remapped code
\* qwerty2dvorak(k) # k written to the virtual device, the release of k is
\* written with that same code, whatever happened in between.
C1_NoStuckKey ==
    [][\A k \in Keys :
          (/\ IsKeyEvent(ev', 0) /\ ev'.code = k
           /\ k \in held
           /\ qwerty2dvorak(k) # k
           /\ pressOut[k] = qwerty2dvorak(k))
          => out' = <<Event(EV_KEY, qwerty2dvorak(k), 0)>>]_vars

\* C2 (membership): in every state the pending array holds an entry for a
\* key k exactly when k is held and its most recent press was written with
\* the remapped code.
C2_Membership ==
    \A k \in Keys :
        Pending(k) <=> (/\ k \in held
                        /\ qwerty2dvorak(k) # k
                        /\ pressOut[k] = qwerty2dvorak(k))

\* C3 (uniqueness): no code occupies two slots of the pending array.
C3_Unique ==
    \A i, j \in Occupied : array_qwerty[i] = array_qwerty[j] => i = j

\* C4 (toggle idempotence): with the toggle feature on, the third left-alt
\* press of a run (left-alt presses with no event of another key in
\* between, the run starting with the counter at 0) leaves the counter at 0
\* and is the only flip of the mapping flag in the run, so that two runs
\* restore the flag; a left-alt release or repeat changes neither the
\* counter nor the flag.
C4_ToggleIdempotence ==
    [][~noToggle =>
          /\ (IsKeyEvent(ev', 1) /\ ev'.code = KEY_LEFTALT /\ altRun = 2)
             => /\ l_alt' = 0
                /\ disable_mapping' # disable_mapping
                /\ runFlips = 0
          /\ (ev'.type = EV_KEY /\ ev'.code = KEY_LEFTALT /\ ev'.value # 1)
             => /\ l_alt' = l_alt
                /\ disable_mapping' = disable_mapping]_vars

\* C5 (disabled passthrough): an event read while the mapping is disabled,
\* or that disables it, is written exactly once with its own type, code and
\* value.
C5_DisabledPassthrough ==
    [][(disable_mapping \/ disable_mapping') => out' = <<ev'>>]_vars

\* a key with an alternate mapping is pressed while the mapping is disabled
\* and a modifier bit is set, and is written unchanged
C5_Witness ==
    /\ disable_mapping
    /\ IsKeyEvent(ev, 1)
    /\ qwerty2dvorak(ev.code) # ev.code
    /\ mod_state # 0
    /\ out = <<ev>>

\* C6 (repeat consistency): while the mapping is enabled, the repeat of a
\* key with an entry in the pending array is written with the recorded
\* code, the repeat of a key without entry with its own code, whatever the
\* modifier mask is; the array and its counter stay as they are.
C6_RepeatConsistency ==
    [][(IsKeyEvent(ev', 2) /\ ~disable_mapping') =>
          /\ TableUnchanged
          /\ out' = IF Pending(ev'.code)
                    THEN <<Event(EV_KEY, qwerty2dvorak(ev'.code), 2)>>
                    ELSE <<ev'>>]_vars

\* the repeat of a pending key is written with the recorded code after all
\* modifiers were released
C6_Witness ==
    /\ ~disable_mapping
    /\ IsKeyEvent(ev, 2)
    /\ Pending(ev.code)
    /\ mod_state = 0
    /\ held = {ev.code}
    /\ out = <<Event(EV_KEY, qwerty2dvorak(ev.code), 2)>>

\* C7 (overflow safety): a press of a key with an alternate mapping, with a
\* modifier held and the pending array at capacity, leaves the array
\* unchanged, logs a warning and is written once with its own code.
C7_OverflowSafety ==
    [][(/\ IsKeyEvent(ev', 1) /\ ~disable_mapping'
        /\ qwerty2dvorak(ev'.code) # ev'.code
        /\ mod_state' # 0
        /\ array_qwerty_counter = MAX_LENGTH)
       => /\ TableUnchanged
          /\ "warning" \in log'
          /\ out' = <<ev'>>]_vars

\* C8 (modifier accuracy): while the mapping is enabled, the bit of each
\* modifier is set in mod_state exactly when the modifier key is held.
C8_ModifierAccuracy ==
    ~disable_mapping =>
        \A m \in Modifiers :
            \/ (m = KEY_CAPSLOCK /\ noCapsLockAsModifier)
            \/ (BitSet(mod_state, modifier_bit(m)) <=> m \in held)

\* C9 (press rule): while the mapping is enabled, the press of a key k with
\* an alternate mapping is written remapped and recorded in a free slot
\* when a modifier bit is set and the array has room, and is written
\* unchanged with the array untouched when no modifier bit is set; the press
\* of a key without alternate mapping is written unchanged and not recorded.
C9_PressRule ==
    [][(IsKeyEvent(ev', 1) /\ ~disable_mapping') =>
          LET k == ev'.code
              q == qwerty2dvorak(ev'.code)
          IN /\ (q # k /\ mod_state' # 0 /\ array_qwerty_counter < MAX_LENGTH)
                => /\ out' = <<Event(EV_KEY, q, 1)>>
                   /\ \E i \in 0..(MAX_LENGTH - 1) :
                          /\ array_qwerty[i] = 0
                          /\ array_qwerty' = [array_qwerty EXCEPT ![i] = q]
             /\ (q # k /\ mod_state' = 0)
                => (out' = <<ev'>> /\ TableUnchanged)
             /\ (q = k) => (out' = <<ev'>> /\ TableUnchanged)]_vars

\* a key with an alternate mapping was pressed with a modifier bit set and
\* is written remapped and recorded in the pending array
C9_Witness ==
    /\ ~disable_mapping
    /\ IsKeyEvent(ev, 1)
    /\ qwerty2dvorak(ev.code) # ev.code
    /\ mod_state # 0
    /\ out = <<Event(EV_KEY, qwerty2dvorak(ev.code), 1)>>
    /\ Pending(ev.code)
    /\ pressOut[ev.code] = qwerty2dvorak(ev.code)

\* C10 (non-key events): an event whose type is not EV_KEY is written
\* unchanged and leaves the modifier mask, the pending array, the toggle
\* counter and the mapping flag as they are.
C10_NonKeyFrame ==
    [][ev'.type # EV_KEY =>
          /\ out' = <<ev'>>
          /\ TableUnchanged
          /\ mod_state' = mod_state
          /\ l_alt' = l_alt
          /\ disable_mapping' = disable_mapping]_vars

\* C11 (one-to-one emission): every event read is written exactly once, with
\* its own type and value; only the code may differ.  One event is handled
\* to the end before the next is read, so the order of the writes is the
\* order of the reads.
C11_OneToOne ==
    [][/\ Len(out') = 1
       /\ out'[1].type = ev'.type
       /\ out'[1].value = ev'.value]_vars

\* C20 (toggle switch): with option -t the mapping flag never leaves its
\* initial value, mapping enabled.
C20_NoToggle == noToggle => ~disable_mapping

\* with option -t a third consecutive left-alt press has just been handled
\* and the mapping is still enabled
C20_Witness ==
    /\ noToggle
    /\ IsKeyEvent(ev, 1)
    /\ ev.code = KEY_LEFTALT
    /\ altRun = 0
    /\ ~disable_mapping

(* ---- start-up ----------------------------------------------------------- *)
\* the two characters are the same letter, in either case, or the same
\* character
SameLetter(a, b) ==
    \/ a = b
    \/ \E n \in DOMAIN Upper : {a, b} = {Upper[n], Lower[n]}

\* m[i..j] is a keyword of the list m: a maximal run without a space
IsKeyword(m, i, j) ==
    /\ i <= j
    /\ \A k \in i..j : m[k] # " "
    /\ i = 1 \/ m[i - 1] = " "
    /\ j = Len(m) \/ m[j + 1] = " "

\* the name contains a keyword of the list m, whatever the case of letters
ContainsKeyword(name, m) ==
    \E i \in 1..Len(m), j \in 1..Len(m) :
        /\ IsKeyword(m, i, j)
        /\ \E off \in 0..(Len(name) - (j - i + 1)) :
               \A k \in 0..(j - i) : SameLetter(name[off + k + 1], m[i + k])

\* no virtual device was opened or created and the device was not grabbed
Untouched ==
    /\ fdo = "none"
    /\ ~uinput.created
    /\ grab = "none"

\* C12 (non-keyboard skip): when main returns on a device whose key bitmap
\* lacks one of KEY_X, KEY_C, KEY_V, and no system call has failed, it
\* returns success and has neither opened nor created a virtual device nor
\* grabbed the device, whatever the option -m
C12_NonKeyboardSkip ==
    (/\ pc = "exited"
     /\ failed = "none"
     /\ ~({KEY_X, KEY_C, KEY_V} \subseteq device.key))
        => (exit_status = "EXIT_SUCCESS" /\ Untouched)

\* C13 (keyword filter): with option -m, main goes on from the keyword loop
\* exactly when the name contains one of the keywords as a substring,
\* whatever the case of letters; otherwise it returns failure there, with
\* no virtual device opened or created and the device not grabbed
C13_KeywordFilter ==
    [][(pc = "match" /\ pc' # pc /\ match # NULL)
          => IF ContainsKeyword(keyboard_name, match[1])
             THEN pc' = "bits_ev" /\ exit_status' = "running"
             ELSE /\ pc' = "exited"
                  /\ exit_status' = "EXIT_FAILURE"
                  /\ Untouched']_vars

C13_Witness ==
    /\ pc = "bits_ev"
    /\ match = <<k360_k750>>
    /\ keyboard_name = LogitechK360

\* C14 (self-exclusion): once the name read is "Virtual Dvorak Keyboard",
\* main is at the comparison or has returned success; it never reaches the
\* keyword loop, opens or creates no virtual device, grabs nothing and
\* reads no event
C14_SelfExclusion ==
    keyboard_name = VirtualName
        => /\ \/ pc = "self_check"
              \/ pc = "exited" /\ exit_status = "EXIT_SUCCESS"
           /\ Untouched
           /\ ~hasRead

C14_Witness ==
    /\ keyboard_name = VirtualName
    /\ match = <<k360_k750>>
    /\ pc = "exited"
    /\ exit_status = "EXIT_SUCCESS"

\* C15 (stream termination): when the loop has ended because read returned
\* a short count or failed with an error other than EINTR, main returns
\* failure
C15_StreamTermination ==
    (pc = "exited" /\ failed = "read") => exit_status = "EXIT_FAILURE"

\* C16 (resource release): when main has returned after it opened the input
\* device, the input device is closed, and so is /dev/uinput if it was
\* opened
C16_ResourceRelease ==
    (pc = "exited" /\ fdi # "none")
        => (fdi = "closed" /\ fdo \in {"none", "closed"})

C16_Witness ==
    /\ pc = "exited"
    /\ failed = "UI_SET_ABSBIT"
    /\ fdi = "closed"
    /\ fdo = "closed"

\* C17 (grab ordering): the grab is attempted only after the virtual device
\* was created, an event is read only after the grab succeeded, and a
\* failed grab makes main return failure without an event read
C17_GrabOrdering ==
    /\ grab # "none" => uinput.created
    /\ (hasRead \/ pc \in {"loop", "read"}) => grab \in {"held", "released"}
    /\ grab = "failed"
           => (pc = "exited" /\ exit_status = "EXIT_FAILURE" /\ ~hasRead)

C17_Witness ==
    /\ grab = "failed"
    /\ pc = "exited"
    /\ uinput.created

\* C18 (capability mirroring): every event-type, key, relative, absolute and
\* miscellaneous bit registered on the virtual device, and every axis whose
\* parameters were set on it, is a bit of the physical device's bitmap
C18_CapabilitySubset ==
    /\ uinput.evbit \subseteq device.ev
    /\ uinput.keybit \subseteq device.key
    /\ uinput.relbit \subseteq device.rel
    /\ uinput.absbit \subseteq device.abs
    /\ uinput.mscbit \subseteq device.msc
    /\ uinput.absinfo \subseteq device.abs

C18_Witness ==
    /\ pc = "create"
    /\ uinput.keybit = {KEY_X, KEY_C, KEY_V}
    /\ uinput.absbit = {ABS_X, ABS_Y}
    /\ uinput.relbit = {}
    /\ EV_SW \in device.ev
    /\ EV_SW \notin uinput.evbit

(* ---- the umlaut layer of src/dvorak.c ----------------------------------- *)
\* C19 (chord pairing): once KEY_6, KEY_Q, KEY_GRAVE and the physical
\* right-alt are all released, the virtual right-alt key is not down:
\* the right-alt press written at the press of one of the three keys has
\* been undone, however shift and right-alt came and went in between
C19_ChordPairing ==
    held \cap {KEY_6, KEY_Q, KEY_GRAVE, KEY_RIGHTALT} = {} => ~vralt

(* ---- the engine of src/unnamed/part_001, continued ---------------------- *)
\* C21 (toggle counter discipline): an event whose type is not EV_KEY leaves
\* the toggle counter and the mapping flag as they are; a key event of
\* another key than left-alt resets the counter; with the toggle feature on,
\* a left-alt press counts one up (the third press wraps to zero) and a
\* left-alt repeat or release leaves the counter as it is
C21_CounterDiscipline ==
    [][/\ ev'.type # EV_KEY
          => (l_alt' = l_alt /\ disable_mapping' = disable_mapping)
       /\ (ev'.type = EV_KEY /\ ev'.code # KEY_LEFTALT) => l_alt' = 0
       /\ (~noToggle /\ ev'.type = EV_KEY /\ ev'.code = KEY_LEFTALT)
          => l_alt' = IF ev'.value = 1 THEN (l_alt + 1) % 3 ELSE l_alt]_vars

\* the held keys whose press was written with a remapped code
HeldRemapped == {k \in held : pressOut[k] # 0 /\ pressOut[k] # k}

\* C27 (overflow only at capacity): while the mapping is enabled, a press
\* of a key with an alternate mapping, with a modifier bit set and fewer
\* than MAX_LENGTH remapped keys held, is written remapped, is recorded in
\* the pending array and logs no warning
C27_OverflowAtCapacity ==
    [][(/\ IsKeyEvent(ev', 1) /\ ~disable_mapping'
        /\ qwerty2dvorak(ev'.code) # ev'.code
        /\ mod_state' # 0
        /\ Cardinality(HeldRemapped) < MAX_LENGTH)
       => /\ out' = <<Event(EV_KEY, qwerty2dvorak(ev'.code), 1)>>
          /\ "warning" \notin log'
          /\ \E i \in 0..(MAX_LENGTH - 1) :
                 array_qwerty'[i] = qwerty2dvorak(ev'.code)]_vars

\* C28 (absolute-axis parameters): every absolute axis registered on the
\* virtual device has had its parameters read from the physical device and
\* set on the virtual device
C28_AxisParameters == uinput.absbit \subseteq uinput.absinfo

\* C29 (caps-lock option): with option -c no caps-lock key event changes
\* the modifier mask and the caps-lock bit is never set; without it, a
\* caps-lock key event handled while the mapping is enabled sets the
\* caps-lock bit on press and repeat, clears it on release and leaves the
\* other bits as they are
C29_CapsLockOption ==
    [][/\ noCapsLockAsModifier => ~BitSet(mod_state', 16)
       /\ (ev'.type = EV_KEY /\ ev'.code = KEY_CAPSLOCK)
          => IF noCapsLockAsModifier
             THEN mod_state' = mod_state
             ELSE ~disable_mapping'
                  => /\ BitSet(mod_state', 16) <=> ev'.value # 0
                     /\ BitAndNot(mod_state', 16)
                            = BitAndNot(mod_state, 16)]_vars

\* with option -c caps-lock is held alone, pressed while the mapping is
\* enabled, and no modifier bit is set
C29_Witness ==
    /\ noCapsLockAsModifier
    /\ ~disable_mapping
    /\ ev = Event(EV_KEY, KEY_CAPSLOCK, 1)
    /\ held = {KEY_CAPSLOCK}
    /\ mod_state = 0

\* C30 (disabled frame): an event handled while the mapping is disabled
\* leaves the modifier mask, the pending array and its counter as they are
C30_DisabledFrame ==
    [][disable_mapping'
          => /\ mod_state' = mod_state
             /\ array_qwerty' = array_qwerty
             /\ array_qwerty_counter' = array_qwerty_counter]_vars

\* left-ctrl was pressed while the mapping is disabled and its bit is not
\* set
C30_Witness ==
    /\ disable_mapping
    /\ ev = Event(EV_KEY, KEY_LEFTCTRL, 1)
    /\ KEY_LEFTCTRL \in held
    /\ ~BitSet(mod_state, 1)

(* ---- the layers of src/dvorak.c ----------------------------------------- *)
\* the remap layers of src/dvorak.c run for the event just handled
Keyed(v) == ~isDvorak' /\ IsKeyEvent(ev', v)

\* the pending array arr holds an entry for the physical key k
Recorded(arr, k) == \E i \in 0..(dvorak_MAX_LENGTH - 1) : arr[i] = k + 1

\* C22 (chord ordering): with option -u, when KEY_6 is pressed with a shift
\* tracked as held and right-alt tracked as not held, right-alt press, sync
\* and the key's press are written in this order; at its release in the
\* same tracked state the key's release is written first, then the
\* right-alt release and a sync
C22_ChordOrdering ==
    [][(/\ isUmlaut
        /\ ~isDvorak'
        /\ ev'.type = EV_KEY
        /\ ev'.code = KEY_6
        /\ lshift' \/ rshift'
        /\ ~alt_gr')
       => /\ ev'.value = 1
             => out' = <<Event(EV_KEY, KEY_RIGHTALT, 1),
                         Event(EV_SYN, SYN_REPORT, 0),
                         Event(EV_KEY, KEY_6, 1)>>
          /\ ev'.value = 0
             => out' = <<Event(EV_KEY, KEY_6, 0),
                         Event(EV_KEY, KEY_RIGHTALT, 0),
                         Event(EV_SYN, SYN_REPORT, 0)>>]_vars

\* C23 (layer precedence): with option -u, the press of a key with a mapping
\* in the primary table, with a modifier bit set and room in array_qwerty,
\* is written once with the code qwerty2dvorak(code), is recorded in
\* array_qwerty and leaves array_umlaut as it is, whatever the state of
\* right-alt and also for KEY_Q
C23_LayerPrecedence ==
    [][(/\ isUmlaut
        /\ Keyed(1)
        /\ qwerty2dvorak(ev'.code) # ev'.code
        /\ mod_state' > 0
        /\ array_qwerty_counter < dvorak_MAX_LENGTH)
       => /\ out' = <<Event(EV_KEY, qwerty2dvorak(ev'.code), 1)>>
          /\ Recorded(array_qwerty', ev'.code)
          /\ array_umlaut' = array_umlaut
          /\ array_umlaut_counter' = array_umlaut_counter]_vars

\* C24 (cross-layer no-stuck-key): with option -u, the release of a held
\* key whose press was written with the code qwerty2dvorak(code) of the
\* primary table is written with that same code and leaves no entry of the
\* key in array_qwerty
C24_CrossLayerRelease ==
    [][(/\ isUmlaut
        /\ IsKeyEvent(ev', 0)
        /\ ev'.code \in held
        /\ pressOut[ev'.code] # ev'.code
        /\ pressOut[ev'.code] = qwerty2dvorak(ev'.code))
       => /\ out' = <<Event(EV_KEY, pressOut[ev'.code], 0)>>
          /\ ~Recorded(array_qwerty', ev'.code)]_vars

\* C25 (alternate-table discipline): with option -u, a held key whose press
\* was written with the code umlaut2dvorak(code) has an entry in
\* array_umlaut, and its release is written with that same code and leaves
\* no entry of the key in array_umlaut
C25_UmlautDiscipline ==
    [][/\ (/\ isUmlaut
           /\ IsKeyEvent(ev', 1)
           /\ out'[Len(out')].code # ev'.code
           /\ out'[Len(out')].code = umlaut2dvorak(ev'.code))
          => Recorded(array_umlaut', ev'.code)
       /\ (/\ isUmlaut
           /\ IsKeyEvent(ev', 0)
           /\ ev'.code \in held
           /\ pressOut[ev'.code] # ev'.code
           /\ pressOut[ev'.code] = umlaut2dvorak(ev'.code))
          => /\ out' = <<Event(EV_KEY, pressOut[ev'.code], 0)>>
             /\ ~Recorded(array_umlaut', ev'.code)]_vars

\* C26 (press with no modifier): without option -u, the press of a key with
\* a mapping in the primary table, handled with no modifier bit set, is
\* written with its own code and leaves array_qwerty and its counter as
\* they are
C26_PressWithoutModifier ==
    [][(/\ ~isUmlaut
        /\ Keyed(1)
        /\ qwerty2dvorak(ev'.code) # ev'.code
        /\ mod_state' = 0)
       => /\ out' = <<ev'>>
          /\ array_qwerty' = array_qwerty
          /\ array_qwerty_counter' = array_qwerty_counter]_vars

(* ---- shutdown and failures ---------------------------------------------- *)
\* C31 (signal shutdown): a read of the loop interrupted by a signal writes
\* nothing, leaves the engine state as it is and goes back to the loop
\* test; once SIGTERM has cleared keep_running while main is in its loop,
\* main eventually returns with both device handles closed, also when the
\* keyboard sends no further event
C31_SignalShutdown ==
    /\ [][(pc = "read" /\ pc' = "loop" /\ rd' = "EINTR")
             => UNCHANGED <<l_alt, mod_state, array_qwerty,
                            array_qwerty_counter, disable_mapping, ev, out,
                            log>>]_vars
    /\ (~keep_running /\ pc \in {"loop", "read"})
           ~> (pc = "exited" /\ fdi = "closed" /\ fdo = "closed")

\* C32 (emission failure is not fatal): when a write of an event's handling
\* has failed, main stays in its loop with both devices open, the toggle
\* counter, the mapping flag, the modifier mask and the pending array are
\* what the handling of the event makes them when every write succeeds, and
\* the loop test that follows goes on to the next read
C32_EmissionFailure ==
    [][/\ (pc = "read" /\ pc' # pc /\ rd' = "event" /\ wfail' # {})
          => LET dis == ToggleFlag(ev')
                 r == IF MappingActive(dis, ev')
                      THEN Remap(ev', mod_state, array_qwerty,
                                 array_qwerty_counter)
                      ELSE Result(mod_state, array_qwerty,
                                  array_qwerty_counter, <<ev'>>, FALSE)
             IN /\ pc' = "loop"
                /\ exit_status' = "running"
                /\ fdi' = "open"
                /\ fdo' = "open"
                /\ l_alt' = ToggleCounter(ev')
                /\ disable_mapping' = dis
                /\ mod_state' = r.ms
                /\ array_qwerty' = r.arr
                /\ array_qwerty_counter' = r.cnt
       /\ (pc = "loop" /\ pc' # pc /\ keep_running /\ wfail # {})
          => pc' = "read"]_vars

\* the write of a remapped press has failed, the key is recorded in the
\* pending array and main is at the next read
C32_Witness ==
    /\ wfail # {}
    /\ ev = Event(EV_KEY, KEY_Q, 1)
    /\ out = <<Event(EV_KEY, KEY_X, 1)>>
    /\ Pending(KEY_Q)
    /\ pc = "read"
    /\ exit_status = "running"

\* C33 (emission failure is logged): whenever a write of an event's handling
\* has failed, a line about the failed write is logged
C33_EmissionLogged ==
    [][(pc = "read" /\ pc' # pc /\ rd' = "event" /\ wfail' # {})
          => "Cannot write to device" \in log']_vars

\* C34 (quiescence): whenever no key of the keyboard is held, the pending
\* array is empty with its counter at 0 and no code is down on the virtual
\* device: every code emitted pressed has since been emitted released
C34_Quiescence ==
    held = {} => (/\ array_qwerty_counter = 0
                  /\ Occupied = {}
                  /\ vdown = {})

\* C35 (KEY_6 right-alt release rule): with option -u, when a press of KEY_6
\* is handled by the umlaut layer the toggle counter lAlt is 0, and with
\* right-alt tracked as held the right-alt release and its sync are written
\* before the key exactly when right-shift is tracked as held, whatever
\* left-shift is
C35_Key6ReleaseRule ==
    [][(isUmlaut /\ Keyed(1) /\ ev'.code = KEY_6)
          => /\ lAlt' = 0
             /\ alt_gr'
                => out' = IF rshift'
                          THEN <<Event(EV_KEY, KEY_RIGHTALT, 0),
                                 Event(EV_SYN, SYN_REPORT, 0), ev'>>
                          ELSE <<ev'>>]_vars

\* KEY_6 was pressed with right-alt, left-shift and left-alt held and
\* right-shift not: the key alone was written
C35_Witness ==
    /\ isUmlaut
    /\ ~isDvorak
    /\ ev = Event(EV_KEY, KEY_6, 1)
    /\ held = {KEY_RIGHTALT, KEY_LEFTALT, KEY_6}
    /\ alt_gr
    /\ ~rshift
    /\ lAlt = 0
    /\ out = <<ev>>

(* ---- src/autoclicker.c --------------------------------------------------- *)
AliveThreads == {t \in ClickThreads : Alive(t)}

\* main is inside stopClickThread, past thread_active = false
Stopping == main_at \in {"stop_unlock", "stop_join"}

\* thread_id names a thread that was created and not joined
Joinable ==
    /\ thread_id \in ClickThreads
    /\ click_at[thread_id].pos \notin {"unborn", "joined"}

\* C36 (single click thread): at most one click thread is alive at any
\* time, and a thread is alive only while thread_active is set or main is
\* stopping it; startClickThread goes on to create a thread only when its
\* test finds thread_active false, and then no thread is alive;
\* thread_active is set only by startClickThread and cleared only by
\* stopClickThread
C36_SingleThread ==
    /\ [](/\ Cardinality(AliveThreads) <= 1
          /\ \A t \in AliveThreads : thread_active \/ Stopping)
    /\ [][/\ (main_at = "start_test" /\ main_at' # main_at)
             => IF thread_active
                THEN main_at' = "start_return"
                ELSE (main_at' = "start_set" /\ AliveThreads = {})
          /\ AliveThreads' \ AliveThreads # {}
             => (main_at = "start_create" /\ thread_active
                 /\ AliveThreads = {})
          /\ thread_active' # thread_active
             => main_at = IF thread_active' THEN "start_set"
                                            ELSE "stop_clear"]_vars

\* a long release arrives while the second thread runs, the first having
\* been stopped and joined: startClickThread returns without a new thread
C36_Witness ==
    /\ main_at = "start_return"
    /\ thread_active
    /\ click_at[1].pos = "joined"
    /\ AliveThreads = {2}

\* C37 (join on stop): when stopClickThread returns from its join of a
\* thread that was created, that thread has ended with as many BTN_LEFT
\* releases written as presses and no click thread is alive; and while
\* thread_active is clear and main is not inside stopClickThread, no click
\* thread is alive to write an event
C37_JoinOnStop ==
    /\ [][(main_at = "stop_join" /\ main_at' = "emit_lock" /\ Joinable)
             => /\ click_at'[thread_id].pos = "joined"
                /\ balance'[thread_id] = 0
                /\ AliveThreads' = {}]_vars
    /\ []((~thread_active /\ ~Stopping /\ main_at # "exited")
             => /\ AliveThreads = {}
                /\ \A t \in ClickThreads : balance[t] = 0)

\* the second thread was stopped and joined, and main is about to forward
\* the press that stopped it
C37_Witness ==
    /\ main_at = "emit_lock"
    /\ ~thread_active
    /\ thread_id = 2
    /\ click_at[2].pos = "joined"
    /\ balance[2] = 0

\* the threads inside the write of emit
InWrite ==
    (IF main_at = "emit_write" THEN {MainThread} ELSE {})
        \cup {t \in ClickThreads : click_at[t].pos = "emit_write"}

\* the thread waits for a mutex or for the end of the thread it joins
Waits(th) ==
    IF th = MainThread
    THEN \/ main_at \in {"start_lock", "stop_lock"} /\ lock # Unlocked
         \/ main_at = "emit_lock" /\ emit_mutex # Unlocked
         \/ main_at = "stop_join" /\ Joinable
                /\ click_at[thread_id].pos # "terminated"
    ELSE \/ click_at[th].pos = "lock" /\ lock # Unlocked
         \/ click_at[th].pos = "emit_lock" /\ emit_mutex # Unlocked

\* the thread is at a statement it can execute
Runs(th) ==
    IF th = MainThread
    THEN main_at \notin {"read", "exited"} /\ ~Waits(th)
    ELSE Alive(th) /\ ~Waits(th)

\* C38 (serialized emission): at most one thread is inside the write of
\* emit at any time; no thread holds lock and emit_mutex together; and
\* whenever a thread waits for a mutex or for the join, some thread is at a
\* statement it can execute
C38_SerializedEmission ==
    /\ Cardinality(InWrite) <= 1
    /\ \A th \in ClickThreads \cup {MainThread} :
           ~(lock = th /\ emit_mutex = th)
    /\ (\E th \in AliveThreads \cup {MainThread} : Waits(th))
           => \E th \in AliveThreads \cup {MainThread} : Runs(th)

\* main waits for emit_mutex while the click thread is inside its write
C38_Witness ==
    /\ main_at = "emit_lock"
    /\ click_at[1].pos = "emit_write"
    /\ emit_mutex = 1

\* the counter of a pending table of n slots is within 0..n, every slot at
\* or above the counter is empty, and the slot below a positive counter is
\* occupied
TableBounds(arr, cnt, n) ==
    /\ DOMAIN arr = 0..(n - 1)
    /\ cnt \in 0..n
    /\ \A i \in cnt..(n - 1) : arr[i] = 0
    /\ cnt > 0 => arr[cnt - 1] # 0

\* an insertion, which raises the counter by one, has written a code other
\* than 0 into the slot the counter named, a slot of the table
InsertionInside(n) ==
    array_qwerty_counter' > array_qwerty_counter
        => /\ array_qwerty_counter \in 0..(n - 1)
           /\ array_qwerty_counter' = array_qwerty_counter + 1
           /\ array_qwerty'[array_qwerty_counter] # 0
           /\ \A i \in 0..(n - 1) :
                  i # array_qwerty_counter
                      => array_qwerty'[i] = array_qwerty[i]

\* C39 (pending-table bounds): in every state 0 <= array_qwerty_counter <=
\* MAX_LENGTH, every slot at an index >= array_qwerty_counter is 0, and when
\* the counter is positive the slot at index counter - 1 is occupied; no
\* insertion writes outside the array.
C39_PendingTableBounds ==
    [][/\ TableBounds(array_qwerty, array_qwerty_counter, MAX_LENGTH)
       /\ TableBounds(array_qwerty', array_qwerty_counter', MAX_LENGTH)
       /\ InsertionInside(MAX_LENGTH)]_vars

\* the table is full up to its last slot with a hole below, and the press
\* just read was refused with the warning
C39_Witness ==
    /\ array_qwerty_counter = MAX_LENGTH
    /\ array_qwerty[MAX_LENGTH - 1] # 0
    /\ \E i \in 0..(MAX_LENGTH - 2) : array_qwerty[i] = 0
    /\ IsKeyEvent(ev, 1)
    /\ "warning" \in log

\* the same bounds for the pending table of src/dvorak.c
dvorak_PendingTableBounds ==
    [][/\ TableBounds(array_qwerty, array_qwerty_counter, dvorak_MAX_LENGTH)
       /\ TableBounds(array_qwerty', array_qwerty_counter',
                      dvorak_MAX_LENGTH)
       /\ InsertionInside(dvorak_MAX_LENGTH)]_vars

\* the key codes that qwerty2dvorak maps onto the code c
MappedOnto(c) == {x \in KeyCodes : qwerty2dvorak(x) = c}

\* C40 (layout map injectivity): qwerty2dvorak is injective on the key
\* codes: it permutes its 35 listed keys, of which only KEY_A and KEY_M keep
\* their code, and leaves every other code as it is; it maps no listed key
\* to 0. So every occupied slot of the pending table holds a code other
\* than 0 that is the mapped code of exactly one key, a key with a mapping.
C40_LayoutInjective ==
    LET k == ev.code
        q == qwerty2dvorak(k)
    IN /\ MappedOnto(q) = {k}
       /\ Cardinality(ListedKeys) = 35
       /\ {qwerty2dvorak(x) : x \in ListedKeys} = ListedKeys
       /\ k \in ListedKeys => (q = k <=> k \in {KEY_A, KEY_M})
       /\ k \notin ListedKeys => q = k
       /\ k \in ListedKeys => q # 0
       /\ \A i \in 0..(MAX_LENGTH - 1) :
              array_qwerty[i] # 0
                  => LET keys == MappedOnto(array_qwerty[i])
                     IN /\ Cardinality(keys) = 1
                        /\ \A h \in keys : qwerty2dvorak(h) # h

\* the last key of the table was pressed with left control held: its
\* mapped code is in the pending table and was written
C40_Witness ==
    /\ ev = Event(EV_KEY, KEY_SLASH, 1)
    /\ held = {KEY_LEFTCTRL, KEY_SLASH}
    /\ array_qwerty_counter = 1
    /\ array_qwerty[0] = KEY_LEFTBRACE
    /\ out = <<Event(EV_KEY, KEY_LEFTBRACE, 1)>>
====
